---- MODULE Spec2Model ----
(***************************************************************************)
(* Model of backend/main.py: the conversation store (in-memory dicts or    *)
(* Firestore), the HTTP conversation endpoints, the WebSocket connection   *)
(* manager ("hub") and the websocket_endpoint frame handler with its       *)
(* keepalive task; the AIService (intent detection, prompt building, the   *)
(* LLM calls); and of backend/rag/rag_service.py: the id sanitizer, the    *)
(* chunker and the ingestion run.                                          *)
(***************************************************************************)
EXTENDS Integers, Sequences, FiniteSets, TLC

VARIABLES
    backend,              \* "memory" (db is None) or "firestore" (db is a client)
    conversations,        \* stored conversations, in insertion order
    messages_store,       \* stored messages, in insertion order
    active_connections,   \* manager.active_connections: user -> session (0 = no entry)
    sessions,             \* one record per accepted WebSocket (websocket_endpoint call)
    sent,                 \* every send_json call so far: [sock, frame]
    model_available,      \* ai_service.model is not None
    http_response,        \* the last HTTP response, with the request it answers
    now,                  \* the event loop's clock, in seconds
    ai_call,              \* the AIService call in progress, or the last one made
    ingestion,            \* RAGService.load_and_index_plants: its run and the index
    retrieval             \* RAGService.get_rag_context: its last call

vars == <<backend, conversations, messages_store, active_connections, sessions,
          sent, model_available, http_response, now, ai_call, ingestion, retrieval>>

(***************************************************************************)
(* Bounds and input sets                                                   *)
(***************************************************************************)
Users == {"a", "b"}

\* conversations the store may hold (uuid4 ids are drawn from 1..MaxConvs)
MaxConvs == 2
\* longest participantIds list a create request carries
MaxPart == 2

ConvIds == 1..MaxConvs
\* an id no conversation has (a request naming an unknown conversation)
NoConvId == 0

ConvTypes == {"one_to_one", "group"}

RECURSIVE SeqsUpTo(_, _)
SeqsUpTo(S, n) ==
    IF n = 0 THEN {<<>>}
    ELSE LET shorter == SeqsUpTo(S, n - 1)
         IN  shorter \cup {Append(q, x) : q \in {r \in shorter : Len(r) = n - 1}, x \in S}

PLists == SeqsUpTo(Users, MaxPart)

Range(q) == {q[i] : i \in 1..Len(q)}

(***************************************************************************)
(* Conversation store                                                      *)
(***************************************************************************)

\* position of the conversation with this id in the store, 0 when there is none
ConvIndex(cid) ==
    IF \E i \in 1..Len(conversations) : conversations[i].id = cid
    THEN CHOOSE i \in 1..Len(conversations) : conversations[i].id = cid
    ELSE 0

\* get_conversation: the stored record (callers test ConvIndex first for None)
get_conversation(cid) == conversations[ConvIndex(cid)]

\* save_conversation of a conversation with a fresh id
save_conversation(conv) == Append(conversations, conv)

\* update_conversation: merge the given fields into the stored record
update_conversation(cid, field, value) ==
    IF ConvIndex(cid) = 0 THEN conversations
    ELSE [conversations EXCEPT ![ConvIndex(cid)] =
            [@ EXCEPT ![field] = value]]

\* The order in which the store is scanned: the dict's insertion order in
\* memory, the document id order of a Firestore collection stream.
RECURSIVE SortById(_)
SortById(q) ==
    IF q = <<>> THEN <<>>
    ELSE LET m == CHOOSE i \in 1..Len(q) : \A j \in 1..Len(q) : q[i].id <= q[j].id
         IN  <<q[m]>> \o SortById(SubSeq(q, 1, m - 1) \o SubSeq(q, m + 1, Len(q)))

ScanOrder == IF backend = "memory" THEN conversations ELSE SortById(conversations)

\* a lookup that compares the participant lists in order instead of as sets
find_by_ordered_participants(pids, ctype) ==
    LET scan == ScanOrder
        hits == {i \in 1..Len(scan) :
                    scan[i].type = ctype /\ scan[i].participants = pids}
    IN  IF hits = {} THEN NoConvId
        ELSE scan[CHOOSE i \in hits : \A j \in hits : i <= j].id

\* find_conversation_by_participants: id of the first scanned conversation of the
\* type whose participants, as a set, equal the given ids as a set; NoConvId if none
find_conversation_by_participants(pids, ctype) ==
    LET scan == ScanOrder
        hits == {i \in 1..Len(scan) :
                    scan[i].type = ctype /\ Range(scan[i].participants) = Range(pids)}
    IN  IF hits = {} THEN NoConvId
        ELSE scan[CHOOSE i \in hits : \A j \in hits : i <= j].id

(***************************************************************************)
(* Texts: Python strings as sequences of characters                        *)
(***************************************************************************)
Sp == <<" ">>
Hi == <<"h", "i">>
SlashBot == <<"/", "b", "o", "t">>
SlashChat == <<"/", "c", "h", "a", "t">>

\* the texts a client puts into a send_message frame
Texts == {<<>>, Sp, Hi, SlashBot, SlashChat,
          SlashBot \o Sp \o Hi, SlashBot \o Sp \o SlashChat, Sp \o SlashBot \o Sp}

IsSpace(ch) == ch = " "

\* str.lstrip / str.rstrip / str.strip
RECURSIVE lstrip(_)
lstrip(t) == IF t # <<>> /\ IsSpace(Head(t)) THEN lstrip(Tail(t)) ELSE t

RECURSIVE rstrip(_)
rstrip(t) ==
    IF t # <<>> /\ IsSpace(t[Len(t)]) THEN rstrip(SubSeq(t, 1, Len(t) - 1)) ELSE t

strip(t) == rstrip(lstrip(t))

\* str.startswith
startswith(t, prefix) ==
    Len(t) >= Len(prefix) /\ SubSeq(t, 1, Len(prefix)) = prefix

\* t[n:]
SliceFrom(t, n) == SubSeq(t, n + 1, Len(t))

(***************************************************************************)
(* Messages and frames                                                     *)
(***************************************************************************)
BotUser == "bot"

\* clientMessageId values of a frame ("" = the frame carries none)
ClientMessageIds == {"", "k1"}

NewMessage(mid, text, userId, userName, cid, isBot, cmid) ==
    [id |-> mid, text |-> text, userId |-> userId, userName |-> userName,
     conversationId |-> cid, isBot |-> isBot, type |-> "text",
     clientMessageId |-> cmid]

\* the message slot of a frame that carries no message
NoMessage == NewMessage(0, <<>>, "", "", NoConvId, FALSE, "")

Frame(ftype, cid, message) == [type |-> ftype, conv |-> cid, message |-> message]

\* save_message
save_message(store, message) == Append(store, message)

Reverse(q) == [i \in 1..Len(q) |-> q[Len(q) + 1 - i]]

\* q[:n]
Take(q, n) == SubSeq(q, 1, IF n < Len(q) THEN n ELSE Len(q))

\* q[-n:] for n > 0
TakeLast(q, n) == SubSeq(q, IF n < Len(q) THEN Len(q) - n + 1 ELSE 1, Len(q))

\* the stored messages of a conversation, oldest first (createdAt is the time of
\* the save that follows the message's construction)
MessagesOf(store, cid) == SelectSeq(store, LAMBDA m : m.conversationId = cid)

\* get_messages: Firestore orders by createdAt descending and applies the limit,
\* the in-memory store returns the conversation's list as it is
get_messages(cid, limit) ==
    IF backend = "firestore"
    THEN Take(Reverse(MessagesOf(messages_store, cid)), limit)
    ELSE MessagesOf(messages_store, cid)

\* the text of an image message sent without a caption
ImageCaption == <<"i", "m", "g">>

\* the texts the LLM answers with, and the canned replies of generate_response
LlmReply == <<"o", "k">>
FallbackReply == <<"f", "b">>
ErrorReply == <<"e", "r", "r">>

(***************************************************************************)
(* Hub: sends                                                              *)
(***************************************************************************)

\* one send_json call on the socket of session s; it raises on a closed socket
SendOn(s, frame) == [sock |-> s, frame |-> frame, raised |-> sessions[s].ws # "open"]

\* send_personal_message: the send_json calls it makes
send_personal_message(frame, user) ==
    IF active_connections[user] # 0
    THEN <<SendOn(active_connections[user], frame)>>
    ELSE <<>>

\* a broadcast without the try around send_json: the first send that raises
\* ends the loop
RECURSIVE BroadcastUntilRaise(_, _, _)
BroadcastUntilRaise(frame, parts, exclude_user) ==
    IF parts = <<>> THEN <<>>
    ELSE IF Head(parts) # exclude_user /\ active_connections[Head(parts)] # 0
    THEN <<SendOn(active_connections[Head(parts)], frame)>>
         \o (IF sessions[active_connections[Head(parts)]].ws # "open" THEN <<>>
             ELSE BroadcastUntilRaise(frame, Tail(parts), exclude_user))
    ELSE BroadcastUntilRaise(frame, Tail(parts), exclude_user)

\* broadcast_to_conversation over a participants list: the send_json calls it
\* makes; a send that raises is logged and the loop goes on
RECURSIVE BroadcastTo(_, _, _)
BroadcastTo(frame, parts, exclude_user) ==
    IF parts = <<>> THEN <<>>
    ELSE (IF Head(parts) # exclude_user /\ active_connections[Head(parts)] # 0
          THEN <<SendOn(active_connections[Head(parts)], frame)>>
          ELSE <<>>)
         \o BroadcastTo(frame, Tail(parts), exclude_user)

\* broadcast_to_conversation against a given store content
broadcast_in(store, frame, cid, exclude_user) ==
    IF \E i \in 1..Len(store) : store[i].id = cid
    THEN BroadcastTo(frame,
                     store[CHOOSE i \in 1..Len(store) : store[i].id = cid].participants,
                     exclude_user)
    ELSE <<>>

broadcast_to_conversation(frame, cid, exclude_user) ==
    broadcast_in(conversations, frame, cid, exclude_user)

\* exclude_user=None
NoUser == "none"

\* the connected users, in the iteration order of active_connections.keys()
RECURSIVE SendToAll(_, _)
SendToAll(frame, users) ==
    IF users = {} THEN <<>>
    ELSE LET u == CHOOSE x \in users : TRUE
         IN  send_personal_message(frame, u) \o SendToAll(frame, users \ {u})

(***************************************************************************)
(* HTTP endpoints of the conversation store                                *)
(***************************************************************************)

OkResponse(op, ctype, pids, cid) ==
    [op |-> op, type |-> ctype, participantIds |-> pids, status |-> 200, id |-> cid]
ErrResponse(op, code) ==
    [op |-> op, type |-> "", participantIds |-> <<>>, status |-> code, id |-> NoConvId]

\* POST /api/conversations
create_conversation(ctype, pids) ==
    LET existing == find_conversation_by_participants(pids, "one_to_one")
    IN  IF ctype = "one_to_one" /\ Len(pids) = 2 /\ existing # NoConvId
        THEN /\ http_response' = OkResponse("create", ctype, pids, existing)
             /\ UNCHANGED <<conversations, sent>>
        ELSE \E cid \in ConvIds :
                /\ ConvIndex(cid) = 0
                /\ Len(conversations) < MaxConvs
                /\ conversations' = save_conversation(
                        [id |-> cid, type |-> ctype, participants |-> pids,
                         hasBot |-> FALSE])
                /\ sent' = IF ctype = "group"
                           THEN sent \o SendToAll(Frame("group_created", cid, NoMessage),
                                                  {u \in Users : active_connections[u] # 0})
                           ELSE sent
                /\ http_response' = OkResponse("create", ctype, pids, cid)

CreateConversation ==
    /\ \E ctype \in ConvTypes, pids \in PLists : create_conversation(ctype, pids)
    /\ UNCHANGED <<backend, messages_store, active_connections, sessions,
                   model_available, now, ai_call, ingestion, retrieval>>

\* POST /api/conversations/{id}/join
join_group(cid, user) ==
    IF ConvIndex(cid) = 0
    THEN /\ http_response' = ErrResponse("join", 404)
         /\ UNCHANGED <<conversations, sent>>
    ELSE IF get_conversation(cid).type # "group"
    THEN /\ http_response' = ErrResponse("join", 400)
         /\ UNCHANGED <<conversations, sent>>
    ELSE IF user \in Range(get_conversation(cid).participants)
    THEN /\ http_response' = OkResponse("join", "group", <<>>, cid)
         /\ UNCHANGED <<conversations, sent>>
    ELSE /\ conversations' = update_conversation(cid, "participants",
                                Append(get_conversation(cid).participants, user))
         /\ sent' = sent \o broadcast_in(conversations',
                                Frame("user_joined_group", cid, NoMessage), cid, NoUser)
         /\ http_response' = OkResponse("join", "group", <<>>, cid)

JoinGroup ==
    /\ \E cid \in ConvIds \cup {NoConvId}, user \in Users : join_group(cid, user)
    /\ UNCHANGED <<backend, messages_store, active_connections, sessions,
                   model_available, now, ai_call, ingestion, retrieval>>

\* POST /api/conversations/{id}/leave
leave_group(cid, user) ==
    IF ConvIndex(cid) = 0
    THEN /\ http_response' = ErrResponse("leave", 404)
         /\ UNCHANGED <<conversations, sent>>
    ELSE IF get_conversation(cid).type # "group"
    THEN /\ http_response' = ErrResponse("leave", 400)
         /\ UNCHANGED <<conversations, sent>>
    ELSE IF user \notin Range(get_conversation(cid).participants)
    THEN /\ http_response' = ErrResponse("leave", 400)
         /\ UNCHANGED <<conversations, sent>>
    ELSE /\ conversations' = update_conversation(cid, "participants",
                                SelectSeq(get_conversation(cid).participants,
                                          LAMBDA p : p # user))
         /\ sent' = sent \o broadcast_in(conversations',
                                Frame("user_left_group", cid, NoMessage), cid, NoUser)
         /\ http_response' = OkResponse("leave", "group", <<>>, cid)

LeaveGroup ==
    /\ \E cid \in ConvIds \cup {NoConvId}, user \in Users : leave_group(cid, user)
    /\ UNCHANGED <<backend, messages_store, active_connections, sessions,
                   model_available, now, ai_call, ingestion, retrieval>>

\* POST /api/conversations/{id}/add-bot
add_bot_to_conversation(cid) ==
    IF ConvIndex(cid) = 0
    THEN /\ http_response' = ErrResponse("add-bot", 404)
         /\ UNCHANGED <<conversations, sent>>
    ELSE IF get_conversation(cid).hasBot
    THEN /\ http_response' = OkResponse("add-bot", "", <<>>, cid)
         /\ UNCHANGED <<conversations, sent>>
    ELSE /\ conversations' = update_conversation(cid, "hasBot", TRUE)
         /\ sent' = sent \o broadcast_in(conversations',
                                Frame("bot_added", cid, NoMessage), cid, NoUser)
         /\ http_response' = OkResponse("add-bot", "", <<>>, cid)

AddBot ==
    /\ \E cid \in ConvIds \cup {NoConvId} : add_bot_to_conversation(cid)
    /\ UNCHANGED <<backend, messages_store, active_connections, sessions,
                   model_available, now, ai_call, ingestion, retrieval>>

\* POST /api/conversations/{id}/remove-bot
remove_bot_from_conversation(cid) ==
    IF ConvIndex(cid) = 0
    THEN /\ http_response' = ErrResponse("remove-bot", 404)
         /\ UNCHANGED <<conversations, sent>>
    ELSE IF ~get_conversation(cid).hasBot
    THEN /\ http_response' = OkResponse("remove-bot", "", <<>>, cid)
         /\ UNCHANGED <<conversations, sent>>
    ELSE /\ conversations' = update_conversation(cid, "hasBot", FALSE)
         /\ sent' = sent \o broadcast_in(conversations',
                                Frame("bot_removed", cid, NoMessage), cid, NoUser)
         /\ http_response' = OkResponse("remove-bot", "", <<>>, cid)

RemoveBot ==
    /\ \E cid \in ConvIds \cup {NoConvId} : remove_bot_from_conversation(cid)
    /\ UNCHANGED <<backend, messages_store, active_connections, sessions,
                   model_available, now, ai_call, ingestion, retrieval>>

(***************************************************************************)
(* WebSocket sessions                                                      *)
(***************************************************************************)
\* websocket_endpoint calls the model follows
MaxSessions == 2
\* send_json calls after which no further client frame is taken
MaxSent == 2
\* stored messages after which no further client frame is taken
MaxMsgs == 1
\* conversations created while WebSockets are in use
MaxHubConvs == 1

PING_INTERVAL == 30

SessionIds == 1..Len(sessions)

\* A session record holds the socket (ws, and who closed it when), the handler's
\* place (pc: "recv" in receive_json, "sent" after the ack, "llm" in
\* generate_response or analyze_image, "done" after its except clause), its local
\* `message`, its local `image_data` (0 while never assigned, else the id of the
\* image message whose imageBase64 was decoded into it),
\* last_pong_time, the ping task (ping, and ping_due, the end of its sleep), the
\* pongs received and not yet read by the handler (inbox), the pings the client
\* has not answered (unanswered) and whether the client has answered every ping
\* before any time passed (prompt).

\* ConnectionManager.connect, then the start of websocket_endpoint
Connect(u) ==
    /\ Len(sessions) < MaxSessions
    /\ sessions' = Append(sessions,
            [user |-> u, ws |-> "open", pc |-> "recv",
             message |-> NoMessage, image_data |-> 0,
             last_pong_time |-> now, ping |-> "running",
             ping_due |-> now + PING_INTERVAL, inbox |-> 0, unanswered |-> 0,
             prompt |-> TRUE, closed_by |-> "nobody", closed_at |-> 0])
    /\ active_connections' = [active_connections EXCEPT ![u] = Len(sessions) + 1]
    /\ UNCHANGED <<backend, conversations, messages_store, sent, model_available,
                   http_response, now, ai_call, ingestion, retrieval>>

\* ConnectionManager.disconnect
disconnect(u) == [active_connections EXCEPT ![u] = 0]

\* the client closes its socket, or the transport fails
ClientClose(s) ==
    /\ sessions[s].ws = "open"
    /\ sessions' = [sessions EXCEPT ![s].ws = "closed", ![s].closed_by = "client",
                                    ![s].closed_at = now]
    /\ UNCHANGED <<backend, conversations, messages_store, active_connections, sent,
                   model_available, http_response, now, ai_call, ingestion, retrieval>>

\* receive_json raises on a closed socket: the except clauses of websocket_endpoint
HandlerExit(s) ==
    /\ sessions[s].pc = "recv"
    /\ sessions[s].ws = "closed"
    /\ sessions' = [sessions EXCEPT ![s].pc = "done", ![s].ping = "cancelled"]
    /\ active_connections' = disconnect(sessions[s].user)
    /\ UNCHANGED <<backend, conversations, messages_store, sent, model_available,
                   http_response, now, ai_call, ingestion, retrieval>>

(***************************************************************************)
(* websocket_endpoint: a send_message frame                                *)
(***************************************************************************)

\* a membership test that lets every user pass
anyone_is_participant(user_id, cid) == TRUE

\* `user_id in participants` for the conversation the frame names
is_participant(user_id, cid) == user_id \in Range(get_conversation(cid).participants)

\* a message built without the frame's clientMessageId
without_client_message_id(message, cmid) == message

\* message["clientMessageId"] = client_message_id, when the frame carries one
with_client_message_id(message, cmid) == [message EXCEPT !.clientMessageId = cmid]

\* what the handler's local `conversation` shows for hasBot after the store was
\* updated: the in-memory store hands out the stored dict itself, Firestore a copy
LocalHasBot(read_before, stored_now) ==
    IF backend = "memory" THEN stored_now ELSE read_before

\* the effect of one send_message frame up to its first `continue`, or up to the
\* ack: the store contents, the send_json calls made, and where the handler stands
\* (message is the handler's local `message` while it goes on to the bot reply)
send_message_effect(s, cid, raw_text, cmid) ==
    LET user_id == sessions[s].user
        message_text == strip(raw_text)
        quiet == [convs |-> conversations, msgs |-> messages_store, out |-> <<>>,
                  pc |-> "recv", message |-> NoMessage]
    IN
    IF message_text = <<>> \/ cid = NoConvId THEN quiet
    ELSE IF ConvIndex(cid) = 0 THEN quiet
    ELSE IF ~is_participant(user_id, cid)
    THEN [quiet EXCEPT !.out =
            send_personal_message(Frame("error", NoConvId, NoMessage), user_id)]
    ELSE
    LET had_bot == get_conversation(cid).hasBot
        is_bot_cmd == startswith(message_text, SlashBot)
        query_part == strip(SliceFrom(message_text, 4))
        \* /bot: add the bot unless the conversation has it
        convs1 == IF is_bot_cmd /\ ~had_bot
                  THEN update_conversation(cid, "hasBot", TRUE)
                  ELSE conversations
        out1 == IF is_bot_cmd /\ ~had_bot
                THEN broadcast_in(convs1, Frame("bot_added", cid, NoMessage), cid, NoUser)
                ELSE <<>>
        text1 == IF is_bot_cmd /\ query_part # <<>> THEN query_part ELSE message_text
        has_bot1 == LocalHasBot(had_bot, convs1[ConvIndex(cid)].hasBot)
        \* /chat: remove the bot if the local conversation shows one
        convs2 == IF has_bot1
                  THEN [convs1 EXCEPT ![ConvIndex(cid)].hasBot = FALSE]
                  ELSE convs1
        out2 == IF has_bot1
                THEN out1 \o broadcast_in(convs2, Frame("bot_removed", cid, NoMessage),
                                          cid, NoUser)
                ELSE out1
        message == with_client_message_id(
                        NewMessage(Len(messages_store) + 1, text1, user_id, user_id, cid,
                                   FALSE, ""),
                        cmid)
    IN
    IF is_bot_cmd /\ query_part = <<>>
    THEN [quiet EXCEPT !.convs = convs1, !.out = out1]
    ELSE IF text1 = SlashChat
    THEN [quiet EXCEPT !.convs = convs2, !.out = out2]
    ELSE [convs |-> convs1,
          msgs |-> save_message(messages_store, message),
          out |-> out1
                  \o broadcast_in(convs1, Frame("new_message", cid, message), cid, user_id)
                  \o send_personal_message(Frame("message_sent", cid, message), user_id),
          pc |-> "sent",
          message |-> message]

ReceiveSendMessage(s, cid, raw_text, cmid) ==
    /\ sessions[s].pc = "recv"
    /\ sessions[s].ws = "open"
    /\ Len(sent) < MaxSent
    /\ Len(messages_store) < MaxMsgs
    /\ LET e == send_message_effect(s, cid, raw_text, cmid)
       IN  /\ conversations' = e.convs
           /\ messages_store' = e.msgs
           /\ sent' = sent \o e.out
           /\ sessions' = [sessions EXCEPT ![s].pc = e.pc, ![s].message = e.message]
    /\ UNCHANGED <<backend, active_connections, model_available, http_response, now, ai_call, ingestion,
                   retrieval>>

(***************************************************************************)
(* websocket_endpoint: a send_image frame                                  *)
(***************************************************************************)
\* what the frame carries as image: imageUrl, imageBase64 that decodes,
\* imageBase64 that b64decode rejects, or neither
ImageSources == {"url", "base64", "bad_base64", "none"}

ImageMessage(mid, text, userId, cid, cmid) ==
    [NewMessage(mid, IF text = <<>> THEN ImageCaption ELSE text, userId, "User", cid,
                FALSE, cmid) EXCEPT !.type = "image"]

ErrorTo(user_id) == send_personal_message(Frame("error", NoConvId, NoMessage), user_id)

\* the effect of one send_image frame up to its first `continue`, or up to the ack
send_image_effect(s, cid, image, raw_text, cmid) ==
    LET user_id == sessions[s].user
        user_message == strip(raw_text)
        quiet == [msgs |-> messages_store, out |-> <<>>, pc |-> "recv",
                  message |-> NoMessage, image_data |-> sessions[s].image_data]
        image_message == ImageMessage(Len(messages_store) + 1, user_message, user_id,
                                      cid, cmid)
    IN
    IF cid = NoConvId THEN [quiet EXCEPT !.out = ErrorTo(user_id)]
    ELSE IF ConvIndex(cid) = 0 THEN quiet
    ELSE IF ~is_participant(user_id, cid) THEN [quiet EXCEPT !.out = ErrorTo(user_id)]
    ELSE IF image \in {"bad_base64", "none"} THEN [quiet EXCEPT !.out = ErrorTo(user_id)]
    ELSE [msgs |-> save_message(messages_store, image_message),
          out |-> broadcast_to_conversation(Frame("new_message", cid, image_message),
                                            cid, user_id)
                  \o send_personal_message(Frame("message_sent", cid, image_message),
                                           user_id),
          pc |-> "sent",
          message |-> image_message,
          image_data |-> IF image = "base64" THEN image_message.id
                        ELSE sessions[s].image_data]

ReceiveSendImage(s, cid, image, raw_text, cmid) ==
    /\ sessions[s].pc = "recv"
    /\ sessions[s].ws = "open"
    /\ Len(sent) < MaxSent
    /\ Len(messages_store) < MaxMsgs
    /\ LET e == send_image_effect(s, cid, image, raw_text, cmid)
       IN  /\ messages_store' = e.msgs
           /\ sent' = sent \o e.out
           /\ sessions' = [sessions EXCEPT ![s].pc = e.pc, ![s].message = e.message,
                                           ![s].image_data = e.image_data]
    /\ UNCHANGED <<backend, conversations, active_connections, model_available,
                   http_response, now, ai_call, ingestion, retrieval>>

(***************************************************************************)
(* websocket_endpoint: a join_conversation frame                           *)
(***************************************************************************)
\* get_messages(conversation_id, limit=50)
HistoryLimit == 50

HistoryFrame(cid, messages) ==
    [type |-> "conversation_history", conv |-> cid, message |-> NoMessage,
     messages |-> messages]

ReceiveJoinConversation(s, cid) ==
    /\ sessions[s].pc = "recv"
    /\ sessions[s].ws = "open"
    /\ sent' = IF cid # NoConvId
               THEN sent \o send_personal_message(
                                HistoryFrame(cid, get_messages(cid, HistoryLimit)),
                                sessions[s].user)
               ELSE sent
    /\ UNCHANGED <<backend, conversations, messages_store, active_connections, sessions,
                   model_available, http_response, now, ai_call, ingestion, retrieval>>

(***************************************************************************)
(* websocket_endpoint: the bot's reply                                     *)
(***************************************************************************)
\* after the ack: re-read the conversation and, with a bot in it, call
\* ai_service.generate_response, or ai_service.analyze_image for an image message;
\* the arguments of analyze_image name the local image_data, and when no frame of
\* this connection ever assigned it the call raises before it starts: the except
\* clause of send_image sends an error frame
BotCheck(s) ==
    /\ sessions[s].pc = "sent"
    /\ LET message == sessions[s].message
           has_bot == /\ ConvIndex(message.conversationId) # 0
                      /\ get_conversation(message.conversationId).hasBot
       IN  IF has_bot /\ message.type = "image" /\ sessions[s].image_data = 0
           THEN /\ sent' = sent \o ErrorTo(sessions[s].user)
                /\ sessions' = [sessions EXCEPT ![s].pc = "recv", ![s].message = NoMessage]
           ELSE /\ sent' = sent
                /\ sessions' =
                      IF has_bot
                      THEN [sessions EXCEPT ![s].pc = "llm"]
                      ELSE [sessions EXCEPT ![s].pc = "recv", ![s].message = NoMessage]
    /\ UNCHANGED <<backend, conversations, messages_store, active_connections,
                   model_available, http_response, now, ai_call, ingestion, retrieval>>

\* generate_response returns: "ok" a reply of the LLM, "404" a not-found error of
\* the LLM call, "error" any other error of it
LlmOutcomes == {"ok", "404", "error"}

generate_response_text(outcome) ==
    IF ~model_available THEN FallbackReply
    ELSE IF outcome = "ok" THEN LlmReply
    ELSE ErrorReply

generate_response_model(outcome) ==
    IF model_available /\ outcome = "404" THEN FALSE ELSE model_available

\* the replies of analyze_image: the analysis of the LLM, and its canned replies
VisionReply == <<"s", "e", "e">>
VisionFallbackReply == <<"v", "f", "b">>
VisionErrorReply == <<"v", "e", "r", "r">>

analyze_image_text(outcome) ==
    IF ~model_available THEN VisionFallbackReply
    ELSE IF outcome = "ok" THEN VisionReply
    ELSE VisionErrorReply

\* the bot message is saved and broadcast to the whole conversation
BotReply(s, outcome) ==
    /\ sessions[s].pc = "llm"
    /\ LET cid == sessions[s].message.conversationId
           bot_message == NewMessage(Len(messages_store) + 1,
                                     IF sessions[s].message.type = "image"
                                     THEN analyze_image_text(outcome)
                                     ELSE generate_response_text(outcome),
                                     BotUser, "AI Bot", cid, TRUE, "")
       IN  /\ messages_store' = save_message(messages_store, bot_message)
           /\ sent' = sent \o broadcast_to_conversation(
                                  Frame("new_message", cid, bot_message), cid, NoUser)
    /\ model_available' = generate_response_model(outcome)
    /\ sessions' = [sessions EXCEPT ![s].pc = "recv", ![s].message = NoMessage]
    /\ UNCHANGED <<backend, conversations, active_connections, http_response, now, ai_call, ingestion,
                   retrieval>>

(***************************************************************************)
(* Keepalive: the send_ping task and the pong frames                       *)
(***************************************************************************)
\* the latest time the model follows, and the step of its clock
MaxTime == 120
TickLen == PING_INTERVAL \div 2

\* send_ping wakes from asyncio.sleep(PING_INTERVAL)
PingTask(s) ==
    /\ sessions[s].ping = "running"
    /\ now >= sessions[s].ping_due
    /\ LET time_since_pong == now - sessions[s].last_pong_time
       IN  IF sessions[s].ws = "closed"
           THEN \* close() or send_json raises: the except clause ends the task
                /\ sessions' = [sessions EXCEPT ![s].ping = "ended"]
                /\ sent' = sent
           ELSE IF time_since_pong > PING_INTERVAL * 2
           THEN /\ sessions' = [sessions EXCEPT ![s].ws = "closed",
                                                ![s].closed_by = "keepalive",
                                                ![s].closed_at = now,
                                                ![s].ping = "ended"]
                /\ sent' = sent
           ELSE /\ sessions' = [sessions EXCEPT ![s].ping_due = now + PING_INTERVAL,
                                                ![s].unanswered = @ + 1]
                /\ sent' = Append(sent, SendOn(s, Frame("ping", NoConvId, NoMessage)))
    /\ UNCHANGED <<backend, conversations, messages_store, active_connections,
                   model_available, http_response, now, ai_call, ingestion, retrieval>>

\* the client answers a ping: its pong waits on the socket for receive_json
ClientPong(s) ==
    /\ sessions[s].ws = "open"
    /\ sessions[s].unanswered > 0
    /\ sessions' = [sessions EXCEPT ![s].unanswered = @ - 1, ![s].inbox = @ + 1]
    /\ UNCHANGED <<backend, conversations, messages_store, active_connections, sent,
                   model_available, http_response, now, ai_call, ingestion, retrieval>>

\* websocket_endpoint reads a pong frame
ReceivePong(s) ==
    /\ sessions[s].pc = "recv"
    /\ sessions[s].ws = "open"
    /\ sessions[s].inbox > 0
    /\ sessions' = [sessions EXCEPT ![s].inbox = @ - 1, ![s].last_pong_time = now]
    /\ sent' = Append(sent, SendOn(s, Frame("pong_ack", NoConvId, NoMessage)))
    /\ UNCHANGED <<backend, conversations, messages_store, active_connections,
                   model_available, http_response, now, ai_call, ingestion, retrieval>>

\* something the event loop runs at once: a ping task whose sleep is over, a
\* handler in receive_json with a frame or a disconnect to read, a handler between
\* the ack and the bot check
Ready(s) ==
    \/ sessions[s].ping = "running" /\ now >= sessions[s].ping_due
    \/ sessions[s].pc = "recv" /\ (sessions[s].inbox > 0 \/ sessions[s].ws = "closed")
    \/ sessions[s].pc = "sent"

\* time passes while the event loop has nothing to run; an LLM call in the
\* executor (pc = "llm") may last any time, the code sets no deadline
Tick ==
    /\ now + TickLen <= MaxTime
    /\ \A s \in SessionIds : ~Ready(s)
    /\ now' = now + TickLen
    /\ sessions' = [s \in SessionIds |->
                        IF sessions[s].ws = "open" /\ sessions[s].unanswered > 0
                        THEN [sessions[s] EXCEPT !.prompt = FALSE]
                        ELSE sessions[s]]
    /\ UNCHANGED <<backend, conversations, messages_store, active_connections, sent,
                   model_available, http_response, ai_call, ingestion, retrieval>>

(***************************************************************************)
(* AIService: _detect_query_intent                                         *)
(***************************************************************************)
\* A reply text of the LLM as a sequence of tokens: a code fence with or without the word json, text
\* that is no JSON, or a JSON object. For each of the four keys the object says
\* whether it is missing ("absent") or how bool() reads its value.
JsonValues == {"absent", "true", "false"}

Token(t, a, p, b, m) ==
    [t |-> t, is_animal |-> a, is_plant |-> p, is_both |-> b, is_ambiguous |-> m]

FenceJson == Token("fence_json", "absent", "absent", "absent", "absent")
Fence == Token("fence", "absent", "absent", "absent", "absent")
Junk == Token("text", "absent", "absent", "absent", "absent")

\* well-formed objects with every combination of the four values, and objects
\* that miss a key
JsonObjects ==
    {Token("json", a, p, b, m) : a, p, b, m \in {"true", "false"}}
    \cup {Token("json", "true", "false", "false", "absent"),
          Token("json", "absent", "absent", "absent", "absent")}

\* what generate_content does for the classification prompt: it raises (with a
\* 404 text or another), or returns a text
IntentReplies ==
    {[raises |-> r, text |-> <<>>] : r \in {"404", "error"}}
    \cup {[raises |-> "no", text |-> t] : t \in {<<>>, <<Junk>>, <<Fence>>}}
    \cup {[raises |-> "no", text |-> t] :
            t \in UNION {{<<o>>, <<FenceJson, o, Fence>>, <<Fence, o, Fence>>,
                          <<FenceJson, o>>, <<o, Junk>>} : o \in JsonObjects}}

Intent(a, p, b, m) == [is_animal |-> a, is_plant |-> p, is_both |-> b, is_ambiguous |-> m]

\* the default classification
AmbiguousIntent == Intent(FALSE, FALSE, FALSE, TRUE)

\* the removal of a leading code fence and of a trailing one
strip_fences(text) ==
    LET t1 == IF text # <<>> /\ Head(text) \in {FenceJson, Fence} THEN Tail(text) ELSE text
    IN  IF t1 # <<>> /\ t1[Len(t1)] = Fence THEN SubSeq(t1, 1, Len(t1) - 1) ELSE t1

\* json.loads succeeds on exactly one JSON object
json_loads_ok(text) == Len(text) = 1 /\ text[1].t = "json"

has_required_keys(obj) ==
    /\ obj.is_animal # "absent" /\ obj.is_plant # "absent"
    /\ obj.is_both # "absent" /\ obj.is_ambiguous # "absent"

\* _detect_query_intent once the model is known to be there: the classification
\* it returns for a reply of the LLM
detect_query_intent(reply) ==
    IF reply.raises # "no" THEN AmbiguousIntent
    ELSE IF reply.text = <<>> THEN AmbiguousIntent
    ELSE LET cleaned == strip_fences(reply.text)
         IN  IF ~json_loads_ok(cleaned) THEN AmbiguousIntent
             ELSE IF ~has_required_keys(cleaned[1]) THEN AmbiguousIntent
             ELSE Intent(cleaned[1].is_animal = "true", cleaned[1].is_plant = "true",
                         cleaned[1].is_both = "true", cleaned[1].is_ambiguous = "true")

(***************************************************************************)
(* AIService: generate_response                                            *)
(***************************************************************************)
\* get_messages(conversation_id, limit=10) in the handler, and
\* context_messages[-10:] in generate_response
ContextLimit == 10
PromptHistory == 10

\* rag_service_plant / rag_service_animal: None, there but not is_available(), or
\* available
RagStates == {"none", "unavailable", "available"}

\* what get_rag_context gives when it is called: a context, "", or an exception
RagOutcomes == {"hit", "empty", "raise"}

Part(kind, tag, text) == [part |-> kind, tag |-> tag, text |-> text]

SystemPart == Part("system", "", <<>>)
KbBlock == Part("knowledge_base", "", <<>>)
NoKbBlock == Part("no_knowledge_base", "", <<>>)
AssistantCue == Part("cue", "Assistant", <<>>)

\* the history lines of the prompt for a conversation_context as get_messages
\* returned it: reversed, its last `n` messages, those with a text
RECURSIVE HistoryLines(_)
HistoryLines(msgs) ==
    IF msgs = <<>> THEN <<>>
    ELSE (IF Head(msgs).text = <<>> THEN <<>>
          ELSE IF Head(msgs).isBot
          THEN <<Part("history", "Assistant", Head(msgs).text)>>
          ELSE <<Part("history", Head(msgs).userName, Head(msgs).text)>>)
         \o HistoryLines(Tail(msgs))

history_parts(conversation_context, n) ==
    HistoryLines(TakeLast(Reverse(conversation_context), n))

\* which services generate_response asks, by the intent
asks_plant(intent) ==
    intent.is_both \/ intent.is_ambiguous \/ (~intent.is_animal /\ intent.is_plant)
asks_animal(intent) ==
    intent.is_both \/ intent.is_ambiguous \/ intent.is_animal

\* the block the retrieval step appends: none when no service object exists or a
\* call raised, else the knowledge-base block or the no-context block
context_block(rag_plant, rag_animal, intent, plant_out, animal_out) ==
    LET plant_called == asks_plant(intent) /\ rag_plant = "available"
        animal_called == asks_animal(intent) /\ rag_animal = "available"
        raised == \/ plant_called /\ plant_out = "raise"
                  \/ animal_called /\ animal_out = "raise"
        found == \/ plant_called /\ plant_out = "hit"
                 \/ animal_called /\ animal_out = "hit"
    IN  IF rag_plant = "none" /\ rag_animal = "none" THEN <<>>
        ELSE IF raised THEN <<>>
        ELSE IF found THEN <<KbBlock>>
        ELSE <<NoKbBlock>>

\* a call of get_rag_context (index "plant") or get_rag_context_animals
\* ("animal") and what it gave
Query(index, query, top_k, outcome) ==
    [index |-> index, query |-> query, top_k |-> top_k, outcome |-> outcome]

\* the retrieval calls of one try block, in order: the plant service first, the
\* animal service unless the plant call raised
rag_calls(plant_called, animal_called, query, top_k, plant_out, animal_out) ==
    (IF plant_called THEN <<Query("plant", query, top_k, plant_out)>> ELSE <<>>)
    \o (IF animal_called /\ ~(plant_called /\ plant_out = "raise")
        THEN <<Query("animal", query, top_k, animal_out)>> ELSE <<>>)

\* retrieval calls that do not look at the intent
generate_queries_always_both(rag_plant, rag_animal, intent, query, plant_out, animal_out) ==
    IF rag_plant = "none" /\ rag_animal = "none" THEN <<>>
    ELSE rag_calls(rag_plant = "available", rag_animal = "available", query, 3,
                   plant_out, animal_out)

\* the retrieval calls generate_response makes for an intent
generate_queries(rag_plant, rag_animal, intent, query, plant_out, animal_out) ==
    IF rag_plant = "none" /\ rag_animal = "none" THEN <<>>
    ELSE IF intent.is_both \/ intent.is_ambiguous
    THEN rag_calls(rag_plant = "available", rag_animal = "available", query, 2,
                   plant_out, animal_out)
    ELSE IF intent.is_animal
    THEN rag_calls(FALSE, rag_animal = "available", query, 3, plant_out, animal_out)
    ELSE IF intent.is_plant
    THEN rag_calls(rag_plant = "available", FALSE, query, 3, plant_out, animal_out)
    ELSE <<>>

\* rag_context: the contexts found, plant before animal; none when a call raised
RECURSIVE found_contexts(_)
found_contexts(queries) ==
    IF queries = <<>> THEN <<>>
    ELSE (IF Head(queries).outcome = "hit" THEN <<Head(queries).index>> ELSE <<>>)
         \o found_contexts(Tail(queries))

rag_bundle(queries) ==
    IF \E k \in 1..Len(queries) : queries[k].outcome = "raise" THEN <<>>
    ELSE found_contexts(queries)

\* no AIService call was made yet
NoAiCall ==
    [rag_plant |-> "none", rag_animal |-> "none", op |-> "none", stage |-> "idle",
     user_message |-> <<>>, context |-> <<>>, intent |-> AmbiguousIntent,
     species |-> "UNKNOWN", queries |-> <<>>, rag_context |-> <<>>,
     prompt |-> <<>>, llm_calls |-> 0, failed_404 |-> FALSE, result |-> <<>>]

AiIdle == ai_call.stage \in {"idle", "done"}

\* the handler's call ai_service.generate_response(message_text, recent_messages)
\* up to the first LLM call
StartGenerateResponse(cid, text) ==
    /\ AiIdle
    /\ ai_call' = [ai_call EXCEPT
            !.op = "generate_response",
            !.user_message = text,
            !.context = get_messages(cid, ContextLimit),
            !.intent = AmbiguousIntent,
            !.species = "UNKNOWN",
            !.queries = <<>>,
            !.rag_context = <<>>,
            !.prompt = <<>>,
            !.llm_calls = 0,
            !.failed_404 = FALSE,
            !.result = IF model_available THEN <<>> ELSE FallbackReply,
            !.stage = IF model_available THEN "intent" ELSE "done"]
    /\ UNCHANGED <<backend, conversations, messages_store, active_connections, sessions,
                   sent, model_available, http_response, now, ingestion, retrieval>>

\* the classification call returns; the retrieval step runs and the prompt is built
DetectIntentAndBuildPrompt(reply, plant_out, animal_out) ==
    /\ ai_call.stage = "intent"
    /\ LET intent == detect_query_intent(reply)
           queries == generate_queries(ai_call.rag_plant, ai_call.rag_animal, intent,
                                       ai_call.user_message, plant_out, animal_out)
       IN  ai_call' = [ai_call EXCEPT
                !.intent = intent,
                !.queries = queries,
                !.rag_context = rag_bundle(queries),
                !.llm_calls = @ + 1,
                !.failed_404 = (reply.raises = "404"),
                !.prompt = <<SystemPart>>
                           \o context_block(ai_call.rag_plant, ai_call.rag_animal, intent,
                                            plant_out, animal_out)
                           \o history_parts(ai_call.context, PromptHistory)
                           \o <<Part("user", "User", ai_call.user_message), AssistantCue>>,
                !.stage = "llm"]
    /\ UNCHANGED <<backend, conversations, messages_store, active_connections, sessions,
                   sent, model_available, http_response, now, ingestion, retrieval>>

\* generate_content(full_prompt) returns or raises
GenerateReturns(outcome) ==
    /\ ai_call.stage = "llm"
    /\ ai_call' = [ai_call EXCEPT
            !.llm_calls = @ + 1,
            !.failed_404 = @ \/ outcome = "404",
            !.result = generate_response_text(outcome),
            !.stage = "done"]
    /\ model_available' = generate_response_model(outcome)
    /\ UNCHANGED <<backend, conversations, messages_store, active_connections, sessions,
                   sent, http_response, now, ingestion, retrieval>>

(***************************************************************************)
(* AIService: analyze_image                                                *)
(***************************************************************************)
\* context_messages[-5:]
ImageHistory == 5

\* the identification call: a scientific name, UNKNOWN, or an exception (with a
\* 404 text or another)
IdentifyOutcomes ==
    {"species", "species_in_text", "word", "unknown", "unknown_lower", "empty", "404",
     "error"}

\* scientific_name after the identification call: the binomial the regular
\* expression finds (alone or inside other text), a reply without a binomial
\* as it is, UNKNOWN for an empty reply and for an exception
identified_name(ident) ==
    IF ident \in {"species", "species_in_text"} THEN "Genus species"
    ELSE IF ident = "word" THEN "dandelion"
    ELSE IF ident = "unknown_lower" THEN "unknown"
    ELSE "UNKNOWN"

\* scientific_name.upper() == "UNKNOWN"
is_unknown(scientific_name) == scientific_name \in {"UNKNOWN", "unknown"}

\* retrieval calls made whatever the identification gave
image_queries_for_any_name(rag_plant, rag_animal, species, plant_out, animal_out) ==
    IF rag_plant = "none" /\ rag_animal = "none" THEN <<>>
    ELSE rag_calls(rag_plant = "available", rag_animal = "available", <<species>>, 3,
                   plant_out, animal_out)

\* the retrieval calls analyze_image makes for the identified name
image_queries(rag_plant, rag_animal, species, plant_out, animal_out) ==
    IF is_unknown(species) \/ (rag_plant = "none" /\ rag_animal = "none") THEN <<>>
    ELSE rag_calls(rag_plant = "available", rag_animal = "available", <<species>>, 3,
                   plant_out, animal_out)

\* the request put into the prompt when the image comes without a text
DefaultImageRequest == <<"i", "d", "?">>

IdentifiedSpecies(scientific_name) == Part("identified_species", scientific_name, <<>>)
NoSpeciesBlock == Part("no_species_identification", "", <<>>)
NoRagBlock == Part("rag_services_not_available", "", <<>>)

\* the block analyze_image appends after the identification
image_context_block(rag_plant, rag_animal, species, plant_out, animal_out) ==
    LET plant_called == rag_plant = "available"
        animal_called == rag_animal = "available"
        raised == \/ plant_called /\ plant_out = "raise"
                  \/ animal_called /\ animal_out = "raise"
        found == \/ plant_called /\ plant_out = "hit"
                 \/ animal_called /\ animal_out = "hit"
    IN  IF ~is_unknown(species) /\ (rag_plant # "none" \/ rag_animal # "none")
        THEN (IF raised THEN <<>> ELSE IF found THEN <<KbBlock>> ELSE <<NoKbBlock>>)
        ELSE IF is_unknown(species) THEN <<NoSpeciesBlock>>
        ELSE <<NoRagBlock>>

\* the handler's call ai_service.analyze_image(...) up to the identification call
StartAnalyzeImage(cid, text) ==
    /\ AiIdle
    /\ ai_call' = [ai_call EXCEPT
            !.op = "analyze_image",
            !.user_message = text,
            !.context = get_messages(cid, ContextLimit),
            !.intent = AmbiguousIntent,
            !.species = "UNKNOWN",
            !.queries = <<>>,
            !.rag_context = <<>>,
            !.prompt = <<>>,
            !.llm_calls = 0,
            !.failed_404 = FALSE,
            !.result = IF model_available THEN <<>> ELSE VisionFallbackReply,
            !.stage = IF model_available THEN "identify" ELSE "done"]
    /\ UNCHANGED <<backend, conversations, messages_store, active_connections, sessions,
                   sent, model_available, http_response, now, ingestion, retrieval>>

\* the identification call returns or raises (its except clause goes on with
\* UNKNOWN); the retrieval step runs and the prompt is built
IdentifyAndBuildPrompt(ident, plant_out, animal_out) ==
    /\ ai_call.stage = "identify"
    /\ LET species == identified_name(ident)
           queries == image_queries(ai_call.rag_plant, ai_call.rag_animal, species,
                                    plant_out, animal_out)
       IN  ai_call' = [ai_call EXCEPT
                !.species = species,
                !.queries = queries,
                !.rag_context = rag_bundle(queries),
                !.llm_calls = @ + 1,
                !.failed_404 = (ident = "404"),
                !.prompt = <<SystemPart>>
                           \o (IF ~is_unknown(species) THEN <<IdentifiedSpecies(species)>>
                               ELSE <<>>)
                           \o image_context_block(ai_call.rag_plant, ai_call.rag_animal,
                                                  species, plant_out, animal_out)
                           \o history_parts(ai_call.context, ImageHistory)
                           \o <<Part("user", "User",
                                     IF ai_call.user_message = <<>>
                                     THEN DefaultImageRequest
                                     ELSE ai_call.user_message),
                                AssistantCue>>,
                !.stage = "vision"]
    /\ UNCHANGED <<backend, conversations, messages_store, active_connections, sessions,
                   sent, model_available, http_response, now, ingestion, retrieval>>

\* generate_content(content_parts) returns or raises
VisionReturns(outcome) ==
    /\ ai_call.stage = "vision"
    /\ ai_call' = [ai_call EXCEPT
            !.llm_calls = @ + 1,
            !.failed_404 = @ \/ outcome = "404",
            !.result = analyze_image_text(outcome),
            !.stage = "done"]
    /\ model_available' = generate_response_model(outcome)
    /\ UNCHANGED <<backend, conversations, messages_store, active_connections, sessions,
                   sent, http_response, now, ingestion, retrieval>>

\* the messages save_message is called with: a user's, the bot's, the bot's with
\* an empty text
SavedMessages ==
    {NewMessage(Len(messages_store) + 1, Hi, "a", "a", 1, FALSE, ""),
     NewMessage(Len(messages_store) + 1, LlmReply, BotUser, "AI Bot", 1, TRUE, ""),
     NewMessage(Len(messages_store) + 1, <<>>, BotUser, "AI Bot", 1, TRUE, "")}

SaveMessage(message) ==
    /\ messages_store' = save_message(messages_store, message)
    /\ UNCHANGED <<backend, conversations, active_connections, sessions, sent,
                   model_available, http_response, now, ai_call, ingestion, retrieval>>

(***************************************************************************)
(* RAGService: _sanitize_plant_id                                          *)
(***************************************************************************)
\* A scientific name is a sequence of characters, each named by a string: ASCII
\* characters by themselves, the others by a name ("e_acute" for U+00E9).
LowerAscii == {"a", "b", "c", "e", "i", "k", "n", "o", "s", "t", "u", "w", "x"}
DigitChars == <<"0", "1", "2", "3", "4", "5", "6", "7", "8", "9">>
Digits == {DigitChars[i] : i \in 1..10}
Ascii == LowerAscii \cup Digits \cup {"A", "C", " ", "_", "-", "."}

\* the characters of the names fed to the sanitizer: ASCII letters in both
\* cases, a digit, a space, an underscore, letters of the replacement table
\* (U+00E9, U+00DF), a letter NFKD decomposes (U+014D), a sign NFKD turns into a
\* capital letter (U+2103), a sign NFKD turns into three dots (U+2026), a
\* character without ASCII part (U+4E2D)
NameChars == {"a", "A", "1", " ", "_", "e_acute", "sharp_s", "o_macron", "celsius",
              "ellipsis", "cjk"}

\* longest name fed to the sanitizer
MaxNameLen == 3

Names == SeqsUpTo(NameChars, MaxNameLen)

\* the pieces of a string put together again
RECURSIVE Flatten(_)
Flatten(pieces) == IF pieces = <<>> THEN <<>> ELSE Head(pieces) \o Flatten(Tail(pieces))

\* str.lower()
lower_char(ch) == IF ch = "A" THEN <<"a">> ELSE <<ch>>

\* the `replacements` table
replace_char(ch) ==
    IF ch = "e_acute" THEN <<"e">>
    ELSE IF ch = "sharp_s" THEN <<"s", "s">>
    ELSE IF ch = "times" THEN <<"x">>
    ELSE <<ch>>

\* unicodedata.normalize('NFKD', ...)
nfkd_char(ch) ==
    IF ch = "o_macron" THEN <<"o", "combining_macron">>
    ELSE IF ch = "celsius" THEN <<"degree", "C">>
    ELSE IF ch = "ellipsis" THEN <<".", ".", ".">>
    ELSE <<ch>>

\* .encode('ascii', 'ignore').decode('ascii')
ascii_char(ch) == IF ch \in Ascii THEN <<ch>> ELSE <<>>

\* re.sub(r'[^a-z0-9_]', '_', ...)
underscore_char(ch) == IF ch \in LowerAscii \cup Digits \cup {"_"} THEN <<ch>> ELSE <<"_">>

\* re.sub(r'_+', '_', ...)
RECURSIVE collapse_underscores(_)
collapse_underscores(t) ==
    IF Len(t) < 2 THEN t
    ELSE IF t[1] = "_" /\ t[2] = "_" THEN collapse_underscores(Tail(t))
    ELSE <<Head(t)>> \o collapse_underscores(Tail(t))

\* .strip('_')
RECURSIVE strip_underscores(_)
strip_underscores(t) ==
    IF t # <<>> /\ t[1] = "_" THEN strip_underscores(Tail(t))
    ELSE IF t # <<>> /\ t[Len(t)] = "_" THEN strip_underscores(SubSeq(t, 1, Len(t) - 1))
    ELSE t

Unknown == <<"u", "n", "k", "n", "o", "w", "n">>

\* a sanitizer without the removal of repeated underscores
sanitize_keeping_runs(scientific_name) ==
    IF scientific_name = <<>> THEN Unknown
    ELSE LET lowered == Flatten([k \in 1..Len(scientific_name) |-> lower_char(scientific_name[k])])
             replaced == Flatten([k \in 1..Len(lowered) |-> replace_char(lowered[k])])
             normalized == Flatten([k \in 1..Len(replaced) |-> nfkd_char(replaced[k])])
             ascii == Flatten([k \in 1..Len(normalized) |-> ascii_char(normalized[k])])
             plant_id == strip_underscores(Flatten([k \in 1..Len(ascii) |-> underscore_char(ascii[k])]))
         IN  IF plant_id = <<>> THEN Unknown ELSE plant_id

\* _sanitize_plant_id
sanitize_plant_id(scientific_name) ==
    IF scientific_name = <<>> THEN Unknown
    ELSE LET lowered == Flatten([k \in 1..Len(scientific_name) |-> lower_char(scientific_name[k])])
             replaced == Flatten([k \in 1..Len(lowered) |-> replace_char(lowered[k])])
             normalized == Flatten([k \in 1..Len(replaced) |-> nfkd_char(replaced[k])])
             ascii == Flatten([k \in 1..Len(normalized) |-> ascii_char(normalized[k])])
             plant_id == strip_underscores(collapse_underscores(
                             Flatten([k \in 1..Len(ascii) |-> underscore_char(ascii[k])])))
         IN  IF plant_id = <<>> THEN Unknown ELSE plant_id

(***************************************************************************)
(* RAGService: _chunk_plant_data                                           *)
(***************************************************************************)
\* A record's content: "" (kind "empty"), only whitespace ("blank"), or words
\* separated by one space, each given by its length.
max_chunk_size == 1000

WordLengths == {1, 600, 1200}

\* most words of a content
MaxWords == 3

Content(kind, words) == [kind |-> kind, words |-> words]

Contents ==
    {Content("empty", <<>>), Content("blank", <<>>)}
    \cup {Content("words", w) : w \in SeqsUpTo(WordLengths, MaxWords) \ {<<>>}}

\* the loop over content.split() without the append of the open chunk after it
RECURSIVE split_words_dropping_last(_, _, _, _)
split_words_dropping_last(words, content_chunks, current_chunk, current_length) ==
    IF words = <<>>
    THEN content_chunks
    ELSE LET word_length == Head(words) + 1
         IN  IF current_length + word_length > max_chunk_size /\ current_chunk # <<>>
             THEN split_words_dropping_last(Tail(words),
                              Append(content_chunks, current_chunk),
                              <<Head(words)>>, word_length)
             ELSE split_words_dropping_last(Tail(words), content_chunks,
                              Append(current_chunk, Head(words)),
                              current_length + word_length)

\* the loop over content.split(): the chunks closed so far, the open chunk and
\* its length
RECURSIVE split_words(_, _, _, _)
split_words(words, content_chunks, current_chunk, current_length) ==
    IF words = <<>>
    THEN (IF current_chunk # <<>> THEN Append(content_chunks, current_chunk)
          ELSE content_chunks)
    ELSE LET word_length == Head(words) + 1
         IN  IF current_length + word_length > max_chunk_size /\ current_chunk # <<>>
             THEN split_words(Tail(words), Append(content_chunks, current_chunk),
                              <<Head(words)>>, word_length)
             ELSE split_words(Tail(words), content_chunks,
                              Append(current_chunk, Head(words)),
                              current_length + word_length)

\* the texts of the content chunks; a content without words is one chunk
content_chunk_texts(content) ==
    IF content.kind = "empty" THEN <<>>
    ELSE LET content_chunks == split_words(content.words, <<>>, <<>>, 0)
         IN  IF content_chunks = <<>> THEN <<content.words>> ELSE content_chunks

\* str(i)
RECURSIVE Decimal(_)
Decimal(i) ==
    IF i < 10 THEN <<DigitChars[i + 1]>>
    ELSE Decimal(i \div 10) \o <<DigitChars[(i % 10) + 1]>>

BasicSuffix == <<"_", "b", "a", "s", "i", "c">>
ContentSuffix == <<"_", "c", "o", "n", "t", "e", "n", "t", "_">>

Chunk(id, name, type, chunk_index, text) ==
    [id |-> id, scientific_name |-> name, type |-> type, chunk_index |-> chunk_index,
     text |-> text]

\* _chunk_plant_data (chunk_index of the basic chunk: -1, it has none)
chunk_plant_data(plant) ==
    LET plant_id == sanitize_plant_id(plant.scientific_name)
        texts == content_chunk_texts(plant.content)
    IN  <<Chunk(plant_id \o BasicSuffix, plant.scientific_name, "basic_info", -1, <<>>)>>
        \o [i \in 1..Len(texts) |->
                Chunk(plant_id \o ContentSuffix \o Decimal(i - 1), plant.scientific_name,
                      "detailed_content", i - 1, texts[i])]

(***************************************************************************)
(* RAGService: load_and_index_plants                                       *)
(***************************************************************************)
Plant(name, content, error) ==
    [scientific_name |-> name, content |-> content, error |-> error]

\* a line written by logger.info / logger.error
LogLine(level, event) == [level |-> level, event |-> event]

\* index.upsert(vectors=...): a vector replaces the one stored under its id
RECURSIVE upsert(_, _)
upsert(index, vectors) ==
    IF vectors = <<>> THEN index
    ELSE upsert({v \in index : v.id # Head(vectors).id} \cup {Head(vectors)},
                Tail(vectors))

\* the loop over the chunks of one plant, ended by the first failed embedding
RECURSIVE index_chunks_until_failure(_, _, _, _)
index_chunks_until_failure(chunks, k, failed, run) ==
    IF k > Len(chunks) THEN run
    ELSE IF k \in failed THEN run
    ELSE LET pending == Append(run.vectors_to_upsert, chunks[k])
         IN  IF Len(pending) >= run.batch_size
             THEN index_chunks_until_failure(chunks, k + 1, failed,
                               [run EXCEPT !.index = upsert(run.index, pending),
                                           !.upserts = Append(@, pending),
                                           !.total_indexed = @ + Len(pending),
                                           !.log = Append(@, LogLine("info", "indexed")),
                                           !.vectors_to_upsert = <<>>])
             ELSE index_chunks_until_failure(chunks, k + 1, failed,
                               [run EXCEPT !.vectors_to_upsert = pending])

\* the loop over the chunks of one plant: a chunk whose embedding fails is left
\* out, a full batch is upserted
RECURSIVE index_chunks(_, _, _, _)
index_chunks(chunks, k, failed, run) ==
    IF k > Len(chunks) THEN run
    ELSE IF k \in failed THEN index_chunks(chunks, k + 1, failed, run)
    ELSE LET pending == Append(run.vectors_to_upsert, chunks[k])
         IN  IF Len(pending) >= run.batch_size
             THEN index_chunks(chunks, k + 1, failed,
                               [run EXCEPT !.index = upsert(run.index, pending),
                                           !.upserts = Append(@, pending),
                                           !.total_indexed = @ + Len(pending),
                                           !.log = Append(@, LogLine("info", "indexed")),
                                           !.vectors_to_upsert = <<>>])
             ELSE index_chunks(chunks, k + 1, failed,
                               [run EXCEPT !.vectors_to_upsert = pending])

\* The run: the plants of the file, the position of the loop, the chunks of the
\* plant handled last and those of them whose embedding failed (one set per
\* plant), the pending vectors, the index, the upsert calls made, the log.
\* no ingestion run was started
NoIngestion ==
    [stage |-> "idle", available |-> TRUE, plants |-> <<>>, batch_size |-> 100,
     plant_idx |-> 0, chunks |-> <<>>, failed |-> <<>>, vectors_to_upsert |-> <<>>,
     index |-> {}, upserts |-> <<>>, total_indexed |-> 0, log |-> <<>>,
     result |-> "none"]

\* load_and_index_plants is called: without index or Bedrock client it returns
\* False, else it loads the file
StartLoad ==
    /\ ingestion.stage = "idle"
    /\ ingestion' = IF ingestion.available
                    THEN [ingestion EXCEPT
                            !.stage = "running",
                            !.log = <<LogLine("info", "loading"), LogLine("info", "loaded")>>]
                    ELSE [ingestion EXCEPT
                            !.stage = "done",
                            !.log = <<LogLine("error", "not available")>>,
                            !.result = "False"]
    /\ UNCHANGED <<backend, conversations, messages_store, active_connections, sessions,
                   sent, model_available, http_response, now, ai_call, retrieval>>

\* one pass of the loop over the plants; `failed` are the chunks whose embedding
\* call gives nothing
IndexPlant(failed) ==
    /\ ingestion.stage = "running"
    /\ ingestion.plant_idx < Len(ingestion.plants)
    /\ LET plant == ingestion.plants[ingestion.plant_idx + 1]
           chunks == chunk_plant_data(plant)
           next == [ingestion EXCEPT !.plant_idx = @ + 1]
       IN  /\ failed \subseteq 1..Len(chunks)
           /\ plant.error => failed = {}
           /\ ingestion' = IF plant.error
                           THEN [next EXCEPT !.chunks = <<>>, !.failed = Append(@, {})]
                           ELSE index_chunks(chunks, 1, failed,
                                             [next EXCEPT !.chunks = chunks,
                                                          !.failed = Append(@, failed)])
    /\ UNCHANGED <<backend, conversations, messages_store, active_connections, sessions,
                   sent, model_available, http_response, now, ai_call, retrieval>>

\* the file cannot be read or an upsert raises: the handler logs and returns False
LoadRaises ==
    /\ ingestion.stage = "running"
    /\ ingestion' = [ingestion EXCEPT
            !.log = Append(@, LogLine("error", "error loading and indexing")),
            !.stage = "done",
            !.result = "False"]
    /\ UNCHANGED <<backend, conversations, messages_store, active_connections, sessions,
                   sent, model_available, http_response, now, ai_call, retrieval>>

\* an end of the run that leaves the pending vectors where they are
FinishWithoutFlush ==
    /\ ingestion.stage = "running"
    /\ ingestion.plant_idx = Len(ingestion.plants)
    /\ ingestion' = [ingestion EXCEPT
            !.log = Append(@, LogLine("info", "successfully indexed")),
            !.stage = "done",
            !.result = "True"]
    /\ UNCHANGED <<backend, conversations, messages_store, active_connections, sessions,
                   sent, model_available, http_response, now, ai_call, retrieval>>

\* after the loop: the remaining vectors, if any, are upserted
FinishLoad ==
    /\ ingestion.stage = "running"
    /\ ingestion.plant_idx = Len(ingestion.plants)
    /\ ingestion' = [ingestion EXCEPT
            !.index = upsert(@, ingestion.vectors_to_upsert),
            !.upserts = IF ingestion.vectors_to_upsert # <<>>
                        THEN Append(@, ingestion.vectors_to_upsert) ELSE @,
            !.total_indexed = @ + Len(ingestion.vectors_to_upsert),
            !.vectors_to_upsert = <<>>,
            !.log = Append(@, LogLine("info", "successfully indexed")),
            !.stage = "done",
            !.result = "True"]
    /\ UNCHANGED <<backend, conversations, messages_store, active_connections, sessions,
                   sent, model_available, http_response, now, ai_call, retrieval>>

(***************************************************************************)
(* RAGService: search_plants and get_rag_context                           *)
(***************************************************************************)
\* the scientific names in the metadata of the index, in ascending order; ""
\* stands for a match whose metadata has no scientific_name
SpeciesNames == <<"a", "b", "c">>
Scores == {1, 2}

\* most matches the index returns
MaxMatches == 3

\* get_rag_context asks search_plants for top_k * 5 matches
Oversample == 5

\* top_k of the callers (2 and 3) and the smallest one
TopKs == {1, 2, 3}

Match(name, score) == [scientific_name |-> name, score |-> score]

\* index.query(top_k = n): at most n matches, in descending order of the score
IndexReplies(n) ==
    {m \in SeqsUpTo({Match(name, score) : name \in Range(SpeciesNames) \cup {""},
                                           score \in Scores}, MaxMatches) :
        /\ Len(m) <= n
        /\ \A i \in 1..(Len(m) - 1) : m[i].score >= m[i + 1].score}

\* what search_plants meets: a reply of the index, no service, no embedding of
\* the query, an exception
SearchOutcomes == {"ok", "unavailable", "no_embedding", "raise"}

\* the loop over results.matches: plant_chunks in insertion order
RECURSIVE group_matches(_, _)
group_matches(matches, plant_chunks) ==
    IF matches = <<>> THEN plant_chunks
    ELSE LET match == Head(matches)
             name == match.scientific_name
             at == {i \in 1..Len(plant_chunks) : plant_chunks[i].scientific_name = name}
         IN  IF name = "" THEN group_matches(Tail(matches), plant_chunks)
             ELSE IF at # {}
             THEN group_matches(Tail(matches),
                      [plant_chunks EXCEPT ![CHOOSE i \in at : TRUE].chunks =
                                                Append(@, match)])
             ELSE group_matches(Tail(matches),
                      Append(plant_chunks, [scientific_name |-> name,
                                            chunks |-> <<match>>]))

\* chunks.sort(key = score, reverse = True): stable
RECURSIVE sort_by_score(_)
sort_by_score(chunks) ==
    IF chunks = <<>> THEN <<>>
    ELSE LET rest == sort_by_score(Tail(chunks))
             before == SelectSeq(rest, LAMBDA c : c.score > Head(chunks).score)
             after == SelectSeq(rest, LAMBDA c : c.score <= Head(chunks).score)
         IN  before \o <<Head(chunks)>> \o after

\* search_plants: one entry per name, in the order of plant_chunks, with the
\* best score of its chunks
search_plants(outcome, matches) ==
    IF outcome # "ok" THEN <<>>
    ELSE LET plant_chunks == group_matches(matches, <<>>)
         IN  [i \in 1..Len(plant_chunks) |->
                LET chunks == sort_by_score(plant_chunks[i].chunks)
                IN  [scientific_name |-> plant_chunks[i].scientific_name,
                     all_chunks |-> chunks,
                     score |-> chunks[1].score]]

\* get_rag_context: the species blocks of results[:top_k], by their names; no
\* result gives ""
get_rag_context(results, top_k) ==
    [i \in 1..Len(Take(results, top_k)) |-> results[i].scientific_name]

\* no retrieval was made
NoRetrieval ==
    [stage |-> "idle", top_k |-> 3, outcome |-> "ok", matches |-> <<>>,
     results |-> <<>>, bundle |-> <<>>]

\* a call get_rag_context(query, top_k)
GetRagContext(outcome, matches) ==
    /\ retrieval.stage = "idle"
    /\ matches \in IndexReplies(retrieval.top_k * Oversample)
    /\ outcome # "ok" => matches = <<>>
    /\ LET results == search_plants(outcome, matches)
       IN  retrieval' = [retrieval EXCEPT
                !.stage = "done",
                !.outcome = outcome,
                !.matches = matches,
                !.results = results,
                !.bundle = get_rag_context(results, retrieval.top_k)]
    /\ UNCHANGED <<backend, conversations, messages_store, active_connections, sessions,
                   sent, model_available, http_response, now, ai_call, ingestion>>

\* the caller goes on to its next message
NextQuery(top_k) ==
    /\ retrieval.stage = "done"
    /\ retrieval' = [NoRetrieval EXCEPT !.top_k = top_k]
    /\ UNCHANGED <<backend, conversations, messages_store, active_connections, sessions,
                   sent, model_available, http_response, now, ai_call, ingestion>>

(***************************************************************************)
(* Initial state: the process right after start-up                         *)
(***************************************************************************)
Init ==
    /\ backend \in {"memory", "firestore"}
    /\ conversations = <<>>
    /\ messages_store = <<>>
    /\ active_connections = [u \in Users |-> 0]
    /\ sessions = <<>>
    /\ sent = <<>>
    /\ model_available = TRUE
    /\ http_response = ErrResponse("none", 0)
    /\ now = 0
    /\ ai_call = NoAiCall
    /\ ingestion = NoIngestion
    /\ retrieval = NoRetrieval

(***************************************************************************)
(* The conversation endpoints alone (no WebSocket connected)               *)
(***************************************************************************)
NextStore == CreateConversation \/ JoinGroup \/ LeaveGroup

SpecStore == Init /\ [][NextStore]_vars

(***************************************************************************)
(* Properties of the conversation endpoints                                *)
(***************************************************************************)
\* the stored one_to_one conversations whose participants, as a set, are S
DirectWith(S) ==
    {i \in 1..Len(conversations) :
        conversations[i].type = "one_to_one" /\ Range(conversations[i].participants) = S}

\* a participantIds list naming two different users
IsPair(pids) == Len(pids) = 2 /\ pids[1] # pids[2]

\* every one_to_one create request for S so far carried a list of length 2
OnlyPairRequests(S) == \A i \in DirectWith(S) : Len(conversations[i].participants) = 2

DirectUnique(S) ==
    /\ Cardinality(DirectWith(S)) <= 1
    /\ ( /\ http_response.op = "create"
         /\ http_response.type = "one_to_one"
         /\ IsPair(http_response.participantIds)
         /\ Range(http_response.participantIds) = S )
       => \E i \in DirectWith(S) : conversations[i].id = http_response.id
    /\ \A i \in DirectWith(S) :
          \A q \in PLists :
              find_conversation_by_participants(q, "one_to_one") = conversations[i].id
                  <=> Range(q) = S

\* C8: for two users u1 # u2, every one_to_one create request with [u1, u2] or
\* [u2, u1] is answered with the id of the one conversation stored for {u1, u2},
\* which stays the same conversation from then on, and
\* find_conversation_by_participants returns it for exactly the lists whose set
\* is {u1, u2}.
C8_DirectCreateIdempotent ==
    /\ [](\A u1 \in Users, u2 \in Users :
            (u1 # u2 /\ OnlyPairRequests({u1, u2})) => DirectUnique({u1, u2}))
    /\ [][\A i \in 1..Len(conversations) :
            /\ i <= Len(conversations')
            /\ conversations'[i].id = conversations[i].id
            /\ conversations[i].type = "one_to_one"
                  => conversations'[i] = conversations[i]]_vars

\* a create request with the users in the other order was answered with the
\* conversation stored for the first order
C8_Witness ==
    /\ http_response.op = "create"
    /\ http_response.type = "one_to_one"
    /\ http_response.participantIds = <<"b", "a">>
    /\ \E i \in 1..Len(conversations) :
          /\ conversations[i].id = http_response.id
          /\ conversations[i].participants = <<"a", "b">>

\* C9: no two stored one_to_one conversations have the same set of participants.
C9_DirectSetsDistinct ==
    \A i, j \in 1..Len(conversations) :
        ( /\ i # j
          /\ conversations[i].type = "one_to_one"
          /\ conversations[j].type = "one_to_one" )
        => Range(conversations[i].participants) # Range(conversations[j].participants)

\* C10: every one_to_one conversation has exactly 2 participants and every group
\* conversation has at least 1.
C10_ParticipantCounts ==
    \A i \in 1..Len(conversations) :
        /\ conversations[i].type = "one_to_one"
              => Len(conversations[i].participants) = 2
        /\ conversations[i].type = "group"
              => Len(conversations[i].participants) >= 1

(***************************************************************************)
(* Properties of the hub and of the send_message handler                   *)
(***************************************************************************)
HasEntry(u) == u \in Users /\ active_connections[u] # 0

\* the send_json calls among `out` made on the socket of session s
CallsOn(out, s) == Cardinality({i \in 1..Len(out) : out[i].sock = s})

Participants(cid) == Range(get_conversation(cid).participants)

\* C1: for any hub state and any call broadcast_to_conversation(frame, c,
\* exclude_user=u), the frame is never sent on u's connection, and every other
\* participant of c with an entry in the hub table is sent the frame exactly once.
C1_BroadcastOncePerParticipant ==
    \A i \in 1..Len(conversations), u \in Users \cup {NoUser} :
        LET cid == conversations[i].id
            out == broadcast_to_conversation(Frame("new_message", cid, NoMessage), cid, u)
        IN  /\ HasEntry(u) => CallsOn(out, active_connections[u]) = 0
            /\ \A p \in Participants(cid) \ {u} :
                  HasEntry(p) => CallsOn(out, active_connections[p]) = 1

\* the handler of session s takes a send_message frame for a stored conversation
\* with a text that is not blank
TakesMessage(s, cid, t, k) ==
    /\ ReceiveSendMessage(s, cid, t, k)
    /\ strip(t) # <<>>
    /\ ConvIndex(cid) # 0

\* C2: a send_message frame (any non-empty text) from a connected user who is no
\* participant of the conversation it names has one effect, an `error` frame sent
\* to that user: the message store, the conversations and the hub table stay as
\* they are, no participant is sent anything, and the sender's socket stays open
\* with its handler waiting for the next frame.
C2_NonMemberRejected ==
    [][\A s \in SessionIds, cid \in ConvIds, t \in Texts, k \in ClientMessageIds :
          ( /\ TakesMessage(s, cid, t, k)
            /\ sessions[s].user \notin Participants(cid)
            /\ HasEntry(sessions[s].user) )
          => /\ sent' = Append(sent, SendOn(active_connections[sessions[s].user],
                                            Frame("error", NoConvId, NoMessage)))
             /\ messages_store' = messages_store
             /\ conversations' = conversations
             /\ active_connections' = active_connections
             /\ sessions' = sessions]_vars

\* a user outside the conversation sent `/bot` and was answered with an error
\* frame, while the conversation still has no bot and no message is stored
C2_Witness ==
    /\ Len(sent) >= 1
    /\ sent[Len(sent)].frame.type = "error"
    /\ sessions[sent[Len(sent)].sock].ws = "open"
    /\ messages_store = <<>>
    /\ \E i \in 1..Len(conversations) :
          /\ sessions[sent[Len(sent)].sock].user \notin Range(conversations[i].participants)
          /\ ~conversations[i].hasBot
          /\ \E p \in Range(conversations[i].participants) : HasEntry(p)

\* the conversation has two participants, both with an entry in the hub table
TwoConnected(cid) ==
    /\ Len(get_conversation(cid).participants) = 2
    /\ Cardinality(Participants(cid)) = 2
    /\ \A p \in Participants(cid) : HasEntry(p)

OtherParticipant(cid, a) == CHOOSE b \in Participants(cid) : b # a

IsCommand(t) == startswith(strip(t), SlashBot) \/ strip(t) = SlashChat

\* C3: a send_message of participant a in a conversation of {a, b} with
\* has_bot = true and both connected: a's message is stored, then b is sent
\* new_message and a is sent message_sent with the same message, which carries the
\* frame's clientMessageId; the handler goes on to the bot reply, whose message
\* (isBot, userId "bot") is stored after a's and sent as new_message to a and b
\* after every frame sent before, the ack included.
C3_BotFanOut ==
    [][\A s \in SessionIds :
        LET a == sessions[s].user IN
        /\ \A cid \in ConvIds, t \in Texts, k \in ClientMessageIds :
              ( /\ TakesMessage(s, cid, t, k)
                /\ ~IsCommand(t)
                /\ TwoConnected(cid)
                /\ a \in Participants(cid)
                /\ get_conversation(cid).hasBot )
              => LET m == sessions'[s].message
                     b == OtherParticipant(cid, a)
                 IN  /\ m.userId = a /\ m.text = strip(t) /\ ~m.isBot
                     /\ m.conversationId = cid /\ m.clientMessageId = k
                     /\ messages_store' = Append(messages_store, m)
                     /\ sent' = sent \o
                           <<SendOn(active_connections[b], Frame("new_message", cid, m)),
                             SendOn(active_connections[a], Frame("message_sent", cid, m))>>
                     /\ sessions'[s].pc = "sent"
        /\ ( /\ BotCheck(s)
             /\ ConvIndex(sessions[s].message.conversationId) # 0
             /\ get_conversation(sessions[s].message.conversationId).hasBot )
           => sessions'[s].pc = "llm"
        /\ \A o \in LlmOutcomes :
              (BotReply(s, o) /\ TwoConnected(sessions[s].message.conversationId))
              => LET cid == sessions[s].message.conversationId
                     bm == messages_store'[Len(messages_store')]
                 IN  /\ \E i \in 1..Len(messages_store) :
                            messages_store[i] = sessions[s].message
                     /\ messages_store' = Append(messages_store, bm)
                     /\ bm.isBot /\ bm.userId = BotUser /\ bm.conversationId = cid
                     /\ SubSeq(sent', 1, Len(sent)) = sent
                     /\ Len(sent') = Len(sent) + 2
                     /\ \A p \in Participants(cid) :
                           \E j \in (Len(sent) + 1)..Len(sent') :
                               sent'[j] = SendOn(active_connections[p],
                                                 Frame("new_message", cid, bm))
                     /\ \A j \in 1..Len(sent') :
                           ( /\ sent'[j].frame.type = "message_sent"
                             /\ sent'[j].frame.message = sessions[s].message )
                           => j <= Len(sent)]_vars

\* a's message went to b, the ack with the clientMessageId to a, and the bot's
\* reply to both, in this order
C3_Witness ==
    /\ Len(messages_store) = 2
    /\ Len(sent) >= 4
    /\ LET n == Len(sent)
           m == messages_store[1]
           bm == messages_store[2]
       IN  /\ ~m.isBot /\ m.clientMessageId = "k1" /\ bm.isBot
           /\ sent[n - 3].frame = Frame("new_message", m.conversationId, m)
           /\ sent[n - 2].frame = Frame("message_sent", m.conversationId, m)
           /\ sessions[sent[n - 2].sock].user = m.userId
           /\ sessions[sent[n - 3].sock].user # m.userId
           /\ sent[n - 1].frame = Frame("new_message", m.conversationId, bm)
           /\ sent[n].frame = Frame("new_message", m.conversationId, bm)
           /\ sent[n].sock # sent[n - 1].sock

\* C4: when the handler has processed a participant's send_message whose text is
\* `/chat`, has_bot of the conversation is false; when it has processed one whose
\* text is `/bot` alone or `/bot` followed by a query, has_bot is true.
C4_CommandSetsHasBot ==
    [][\A s \in SessionIds, cid \in ConvIds, t \in Texts, k \in ClientMessageIds :
          (TakesMessage(s, cid, t, k) /\ sessions[s].user \in Participants(cid))
          => /\ strip(t) = SlashChat => ~conversations'[ConvIndex(cid)].hasBot
             /\ startswith(strip(t), SlashBot) => conversations'[ConvIndex(cid)].hasBot]_vars

\* C5: in a conversation with has_bot = false, a participant's `/bot <query>`
\* sets has_bot, broadcasts bot_added before any new_message, and stores,
\* broadcasts and acks a message whose text is exactly <query>; with has_bot
\* already true no bot_added frame is sent.
C5_InlineBotCommand ==
    [][\A s \in SessionIds, cid \in ConvIds, t \in Texts, k \in ClientMessageIds :
          ( /\ TakesMessage(s, cid, t, k)
            /\ sessions[s].user \in Participants(cid)
            /\ startswith(strip(t), SlashBot)
            /\ strip(SliceFrom(strip(t), 4)) # <<>> )
          => LET query == strip(SliceFrom(strip(t), 4))
                 added == {j \in (Len(sent) + 1)..Len(sent') :
                              sent'[j].frame.type = "bot_added"}
                 news == {j \in (Len(sent) + 1)..Len(sent') :
                              sent'[j].frame.type \in {"new_message", "message_sent"}}
             IN  /\ conversations'[ConvIndex(cid)].hasBot
                 /\ Len(messages_store') = Len(messages_store) + 1
                 /\ messages_store'[Len(messages_store')].text = query
                 /\ sessions'[s].message.text = query
                 /\ \A j \in news : sent'[j].frame.message.text = query
                 /\ \A i \in added, j \in news : i < j
                 /\ get_conversation(cid).hasBot => added = {}
                 /\ ~get_conversation(cid).hasBot =>
                       \A p \in Participants(cid) :
                           HasEntry(p) =>
                               \E j \in added : sent'[j].sock = active_connections[p]]_vars

\* C6: when a WebSocket for user u is accepted while an earlier one of u is open
\* and registered, the hub table maps u to the new socket and the earlier socket
\* is closed.
C6_NewConnectionClosesOld ==
    [][\A u \in Users :
          ( /\ Connect(u)
            /\ HasEntry(u)
            /\ sessions[active_connections[u]].ws = "open" )
          => /\ active_connections'[u] = Len(sessions')
             /\ sessions'[active_connections[u]].ws = "closed"]_vars

\* C18: a send_message frame that fails validation (empty or whitespace-only
\* text, no conversationId, or a conversationId of no stored conversation) has one
\* effect, an `error` frame sent to the sender: the message store, the
\* conversations and the hub table stay as they are, no other user is sent
\* anything, and the sender's socket stays open with its handler waiting for the
\* next frame (stated of the handler's effect on every frame it can take).
C18_InvalidFrameRejected ==
    \A s \in SessionIds, cid \in ConvIds \cup {NoConvId}, t \in Texts,
       k \in ClientMessageIds :
        ( /\ sessions[s].pc = "recv"
          /\ sessions[s].ws = "open"
          /\ active_connections[sessions[s].user] = s
          /\ (strip(t) = <<>> \/ cid = NoConvId \/ ConvIndex(cid) = 0) )
        => LET e == send_message_effect(s, cid, t, k)
           IN  /\ e.out = <<SendOn(s, Frame("error", NoConvId, NoMessage))>>
               /\ e.msgs = messages_store
               /\ e.convs = conversations
               /\ e.pc = "recv"

(***************************************************************************)
(* The hub and the frame handlers                                          *)
(***************************************************************************)
\* the participant lists of the conversations created while sockets are in use
HubPLists == {<<"a", "b">>, <<"a">>, <<"a", "a">>}

CreateForHub ==
    /\ Len(conversations) < MaxHubConvs
    /\ \E ctype \in ConvTypes, pids \in HubPLists : create_conversation(ctype, pids)
    /\ UNCHANGED <<backend, messages_store, active_connections, sessions,
                   model_available, now, ai_call, ingestion, retrieval>>

Next ==
    \/ CreateForHub
    \/ \E u \in Users : Connect(u)
    \/ \E s \in SessionIds : ClientClose(s)
    \/ \E s \in SessionIds : HandlerExit(s)
    \/ \E s \in SessionIds, cid \in ConvIds \cup {NoConvId}, t \in Texts,
          k \in ClientMessageIds : ReceiveSendMessage(s, cid, t, k)
    \/ \E s \in SessionIds : BotCheck(s)
    \/ \E s \in SessionIds, o \in LlmOutcomes : BotReply(s, o)

Spec == Init /\ [][Next]_vars

\* how often a user is listed in a participants list
Occurrences(parts, p) == Cardinality({i \in 1..Len(parts) : parts[i] = p})

\* C22: a send that raises on one user's connection, in send_personal_message
\* or inside broadcast_to_conversation, raises nothing to the caller, leaves the
\* hub table as it is and does not keep the frame from the remaining connected
\* participants: every participant with an entry in the hub table, the excluded
\* one apart, gets one send of the frame for each time the conversation lists
\* it, whatever the state of the sockets; users without an entry are skipped.
C22_SendErrorsContained ==
    /\ [](\A cid \in ConvIds, x \in Users \cup {NoUser}, u \in Users :
            LET frame == Frame("new_message", cid, NoMessage)
                out == broadcast_to_conversation(frame, cid, x)
                one == send_personal_message(frame, u)
            IN  /\ ConvIndex(cid) # 0 =>
                      /\ \A p \in Range(get_conversation(cid).participants) :
                            active_connections[p] # 0 =>
                                CallsOn(out, active_connections[p])
                                    = IF p = x THEN 0
                                      ELSE Occurrences(
                                               get_conversation(cid).participants, p)
                      /\ \A k \in 1..Len(out) :
                            /\ out[k].frame = frame
                            /\ \E p \in Range(get_conversation(cid).participants) :
                                  p # x /\ out[k].sock = active_connections[p]
                /\ one = IF active_connections[u] = 0 THEN <<>>
                         ELSE <<SendOn(active_connections[u], frame)>>)
    /\ [][(\E j \in (Len(sent) + 1)..Len(sent') : sent'[j].raised)
            => active_connections' = active_connections]_vars

\* a broadcast met a closed socket that was still in the hub table, and the
\* participant after it got the frame
C22_Witness ==
    \E i, j \in 1..Len(sent) :
        /\ i < j
        /\ sent[i].frame = sent[j].frame
        /\ sent[i].raised /\ ~sent[j].raised
        /\ sent[i].sock # sent[j].sock

\* the session of user u accepted last, 0 when u never connected
LatestSession(u) ==
    LET own == {s \in SessionIds : sessions[s].user = u}
    IN  IF own = {} THEN 0 ELSE CHOOSE s \in own : \A t \in own : t <= s

\* C29: while the session of u accepted last is open and its handler runs, the
\* hub table maps u to that session's socket, whatever became of the older
\* sessions of u
C29_NewestSessionRegistered ==
    \A u \in Users :
        LET s == LatestSession(u)
        IN  (s # 0 /\ sessions[s].ws = "open" /\ sessions[s].pc # "done")
                => active_connections[u] = s

(***************************************************************************)
(* One user's connection with its keepalive, on the clock                  *)
(***************************************************************************)
KeepaliveTexts == {Hi, SlashBot, SlashBot \o Sp \o Hi}

CreateForKeepalive ==
    /\ conversations = <<>>
    /\ create_conversation("group", <<"a">>)
    /\ UNCHANGED <<backend, messages_store, active_connections, sessions,
                   model_available, now, ai_call, ingestion, retrieval>>

NextKeepalive ==
    \/ CreateForKeepalive
    \/ (sessions = <<>> /\ Connect("a"))
    \/ \E s \in SessionIds : ClientClose(s)
    \/ \E s \in SessionIds : HandlerExit(s)
    \/ \E s \in SessionIds, cid \in ConvIds, t \in KeepaliveTexts :
          ReceiveSendMessage(s, cid, t, "")
    \/ \E s \in SessionIds : BotCheck(s)
    \/ \E s \in SessionIds : BotReply(s, "ok")
    \/ \E s \in SessionIds : PingTask(s)
    \/ \E s \in SessionIds : ClientPong(s)
    \/ \E s \in SessionIds : ReceivePong(s)
    \/ Tick

SpecKeepalive == Init /\ [][NextKeepalive]_vars

\* C7: a connection that has produced no pong for 2 x PING_INTERVAL is closed by
\* the hub at the next heartbeat, and within one further heartbeat interval the
\* user's entry is gone from the hub table; a connection that answers every ping
\* with a pong is never closed by the keepalive.
C7_Keepalive ==
    \A s \in SessionIds :
        /\ (sessions[s].ws = "open" /\ sessions[s].ping = "running")
              => now - sessions[s].last_pong_time <= 3 * PING_INTERVAL
        /\ ( /\ sessions[s].closed_by = "keepalive"
             /\ now - sessions[s].closed_at > PING_INTERVAL )
              => active_connections[sessions[s].user] # s
        /\ sessions[s].prompt => sessions[s].closed_by # "keepalive"

(***************************************************************************)
(* A group chat of a and b: messages, images, history, the bot switched on *)
(* and off, members joining and leaving                                    *)
(***************************************************************************)
ChatTexts == {Hi, SlashBot, SlashChat}

CreateForChat ==
    /\ conversations = <<>>
    /\ create_conversation("group", <<"a", "b">>)
    /\ UNCHANGED <<backend, messages_store, active_connections, sessions,
                   model_available, now, ai_call, ingestion, retrieval>>

NextChat ==
    \/ CreateForChat
    \/ (Len(sent) < MaxSent /\ AddBot)
    \/ (Len(sent) < MaxSent /\ RemoveBot)
    \/ (Len(sent) < MaxSent /\ JoinGroup)
    \/ (Len(sent) < MaxSent /\ LeaveGroup)
    \/ \E u \in Users : Connect(u)
    \/ \E s \in SessionIds, cid \in ConvIds, t \in ChatTexts :
          ReceiveSendMessage(s, cid, t, "")
    \/ \E s \in SessionIds, cid \in ConvIds, image \in ImageSources :
          ReceiveSendImage(s, cid, image, <<>>, "")
    \/ \E s \in SessionIds, cid \in ConvIds \cup {NoConvId} :
          (Len(sent) < MaxSent /\ ReceiveJoinConversation(s, cid))
    \/ \E s \in SessionIds : BotCheck(s)
    \/ \E s \in SessionIds, o \in LlmOutcomes : BotReply(s, o)

SpecChat == Init /\ [][NextChat]_vars

\* C11: every stored message has as userId "bot" or a current participant of its
\* conversation, whatever send_message, send_image, join_group and leave_group
\* operations came before.
C11_AuthorIsParticipant ==
    \A i \in 1..Len(messages_store) :
        \/ messages_store[i].userId = BotUser
        \/ messages_store[i].userId \in Participants(messages_store[i].conversationId)

\* C12: whenever a message with isBot = true is stored, its userId is "bot" and
\* has_bot of its conversation is true at that moment, also when a `/chat` command
\* or a remove-bot request came in while the reply was being generated.
C12_BotMessageOnlyWithBot ==
    [][( /\ Len(messages_store') = Len(messages_store) + 1
         /\ messages_store'[Len(messages_store')].isBot )
       => LET bm == messages_store'[Len(messages_store')]
          IN  /\ bm.userId = BotUser
              /\ ConvIndex(bm.conversationId) # 0
              /\ get_conversation(bm.conversationId).hasBot]_vars

\* the limits get_messages is asked with
MaxLimit == 2

\* the conversation's messages newest first, cut to `limit`: r holds no more than
\* `limit` messages of the conversation, as many as there are up to `limit`,
\* from newer to older, and no message left out is newer than one returned
NewestFirst(r, cid, limit) ==
    LET all == MessagesOf(messages_store, cid)
    IN  /\ Len(r) <= limit
        /\ Len(r) = (IF Len(all) < limit THEN Len(all) ELSE limit)
        /\ \A i \in 1..Len(r) : \E k \in 1..Len(all) : all[k] = r[i]
        /\ \A i, j \in 1..Len(r) : i < j => r[i].id > r[j].id
        /\ \A k \in 1..Len(all) :
              (\A i \in 1..Len(r) : r[i] # all[k])
                  => \A i \in 1..Len(r) : all[k].id < r[i].id

\* C13: on either backend get_messages(conversation_id, limit) returns at most
\* `limit` messages, the most recently created ones of the conversation ordered by
\* createdAt descending, and every conversation_history frame holds at most the
\* last 50 messages in that order.
C13_GetMessagesNewestFirst ==
    /\ \A cid \in ConvIds, limit \in 1..MaxLimit :
          NewestFirst(get_messages(cid, limit), cid, limit)
    /\ \A j \in 1..Len(sent) :
          sent[j].frame.type = "conversation_history"
              => LET r == sent[j].frame.messages
                 IN  /\ Len(r) <= HistoryLimit
                     /\ \A i, k \in 1..Len(r) : i < k => r[i].id > r[k].id

\* the frames that carry messages of a conversation
MessageFrames == {"new_message", "message_sent", "conversation_history"}

\* C23: no frame that carries messages of a conversation (new_message,
\* message_sent, conversation_history) is sent to a user who is not a participant
\* of that conversation when it is sent.
C23_DeliveryToMembersOnly ==
    [][\A j \in (Len(sent) + 1)..Len(sent') :
          (sent'[j].frame.type \in MessageFrames /\ ConvIndex(sent'[j].frame.conv) # 0)
          => sessions[sent'[j].sock].user
                \in Range(get_conversation(sent'[j].frame.conv).participants)]_vars

\* the handler of session s has stored and fanned out an image message in a
\* conversation that has the bot, and stands before the call of analyze_image
ImageAwaitsBot(s) ==
    /\ sessions[s].pc = "sent"
    /\ sessions[s].message.type = "image"
    /\ ConvIndex(sessions[s].message.conversationId) # 0
    /\ get_conversation(sessions[s].message.conversationId).hasBot

\* C30: after an accepted send_image frame in a conversation that has the bot,
\* whether the image came as imageUrl or as imageBase64, the handler goes on to
\* analyze_image with the bytes of that frame's image, never with bytes an
\* earlier frame of the connection left behind, and the reply is stored and
\* broadcast as the bot's new_message.
C30_ImageAnalysedWithOwnBytes ==
    [][\A s \in SessionIds :
          /\ (ImageAwaitsBot(s) /\ sessions'[s].pc # "sent")
                => /\ sessions'[s].pc = "llm"
                   /\ sessions'[s].image_data = sessions[s].message.id
          /\ (sessions[s].pc = "llm" /\ sessions[s].message.type = "image"
                /\ sessions'[s].pc # "llm")
                => /\ Len(messages_store') = Len(messages_store) + 1
                   /\ messages_store'[Len(messages_store')].isBot
                   /\ \E j \in (Len(sent) + 1)..Len(sent') :
                         /\ sent'[j].frame.type = "new_message"
                         /\ sent'[j].frame.message.isBot]_vars

(***************************************************************************)
(* The AIService: calls of generate_response and analyze_image, one at a   *)
(* time, over the messages stored so far                                   *)
(***************************************************************************)
\* stored messages after which no further one is saved
MaxStored == 2

InitAI ==
    /\ backend \in {"memory", "firestore"}
    /\ conversations = <<>>
    /\ messages_store = <<>>
    /\ active_connections = [u \in Users |-> 0]
    /\ sessions = <<>>
    /\ sent = <<>>
    /\ model_available \in BOOLEAN
    /\ http_response = ErrResponse("none", 0)
    /\ now = 0
    /\ \E rp \in RagStates, ra \in RagStates :
          ai_call = [NoAiCall EXCEPT !.rag_plant = rp, !.rag_animal = ra]
    /\ ingestion = NoIngestion
    /\ retrieval = NoRetrieval

NextAI ==
    \/ \E m \in SavedMessages : (Len(messages_store) < MaxStored /\ AiIdle /\ SaveMessage(m))
    \/ StartGenerateResponse(1, Hi)
    \/ \E reply \in IntentReplies, po \in RagOutcomes, ao \in RagOutcomes :
          DetectIntentAndBuildPrompt(reply, po, ao)
    \/ \E o \in LlmOutcomes : GenerateReturns(o)
    \/ \E t \in {<<>>, Hi} : StartAnalyzeImage(1, t)
    \/ \E ident \in IdentifyOutcomes, po \in RagOutcomes, ao \in RagOutcomes :
          IdentifyAndBuildPrompt(ident, po, ao)
    \/ \E o \in LlmOutcomes : VisionReturns(o)

SpecAI == InitAI /\ [][NextAI]_vars

\* the line of the prompt for a stored message
HistoryLine(m) ==
    Part("history", IF m.isBot THEN "Assistant" ELSE m.userName, m.text)

\* the history the prompt is to hold: of the (at most 10) most recent stored
\* messages of the conversation those with a text, oldest first
ExpectedHistory(cid) ==
    LET recent == TakeLast(MessagesOf(messages_store, cid), PromptHistory)
        with_text == SelectSeq(recent, LAMBDA m : m.text # <<>>)
    IN  [i \in 1..Len(with_text) |-> HistoryLine(with_text[i])]

\* C14: the prompt generate_response builds for a new user message holds as
\* history exactly the min(10, n) most recent stored messages of the conversation
\* that have a text, oldest first, bot messages tagged Assistant and user messages
\* tagged with their userName, after the knowledge-base block and right before the
\* current user message.
C14_PromptHistory ==
    (ai_call.op = "generate_response" /\ ai_call.stage = "llm")
    => LET prompt == ai_call.prompt
           expected == ExpectedHistory(1)
           k == Len(prompt) - 2 - Len(expected)
       IN  /\ k >= 1
           /\ SubSeq(prompt, k + 1, k + Len(expected)) = expected
           /\ \A i \in 1..k : prompt[i].part \in {"system", "knowledge_base",
                                                   "no_knowledge_base"}
           /\ prompt[Len(prompt) - 1] = Part("user", "User", ai_call.user_message)
           /\ prompt[Len(prompt)] = AssistantCue

\* the reply is an error, empty, no JSON object, or an object that misses a key
Unreadable(reply) ==
    \/ reply.raises # "no"
    \/ reply.text = <<>>
    \/ ~json_loads_ok(strip_fences(reply.text))
    \/ ~has_required_keys(strip_fences(reply.text)[1])

\* C15: whatever the LLM replies to the classification prompt,
\* _detect_query_intent returns four booleans of which is_both and is_ambiguous
\* are not both true and at least one is true; for an error, an empty reply, a
\* parse failure or a missing key it returns is_ambiguous alone.
C15_IntentWellFormed ==
    [][\A reply \in IntentReplies, po \in RagOutcomes, ao \in RagOutcomes :
          DetectIntentAndBuildPrompt(reply, po, ao)
          => LET r == ai_call'.intent
             IN  /\ ~(r.is_both /\ r.is_ambiguous)
                 /\ r.is_animal \/ r.is_plant \/ r.is_both \/ r.is_ambiguous
                 /\ Unreadable(reply) => r = AmbiguousIntent]_vars

\* C16: once an LLM call made by generate_response or analyze_image has failed
\* with a 404 / not found error the model is unavailable and stays so, every later
\* call returns its canned fallback without invoking the LLM, and an LLM error of
\* another kind leaves the model as it was.
C16_CircuitBreaker ==
    [][/\ GenerateReturns("404") => ~model_available'
       /\ VisionReturns("404") => ~model_available'
       /\ \A po \in RagOutcomes, ao \in RagOutcomes :
             IdentifyAndBuildPrompt("404", po, ao) => ~model_available'
       /\ ~model_available => ~model_available'
       /\ (~model_available /\ StartGenerateResponse(1, Hi))
             => /\ ai_call'.stage = "done"
                /\ ai_call'.llm_calls = 0
                /\ ai_call'.result = FallbackReply
       /\ \A t \in {<<>>, Hi} :
             (~model_available /\ StartAnalyzeImage(1, t))
             => /\ ai_call'.stage = "done"
                /\ ai_call'.llm_calls = 0
                /\ ai_call'.result = VisionFallbackReply
       /\ ~model_available => ai_call.stage \notin {"intent", "llm", "identify", "vision"}
       /\ (GenerateReturns("error") \/ VisionReturns("error"))
             => model_available' = model_available
       /\ \A po \in RagOutcomes, ao \in RagOutcomes :
             IdentifyAndBuildPrompt("error", po, ao) => model_available' = model_available
      ]_vars

\* C17: in generate_response with the model available, when retrieval supplies no
\* context (nothing found, a retrieval call raised, no service configured or
\* available) the prompt holds the no-context block and no knowledge-base block,
\* and the LLM is called with it.
C17_NoContextBlock ==
    [][\A reply \in IntentReplies, po \in RagOutcomes, ao \in RagOutcomes :
          DetectIntentAndBuildPrompt(reply, po, ao)
          => LET intent == ai_call'.intent
                 plant_called == asks_plant(intent) /\ ai_call.rag_plant = "available"
                 animal_called == asks_animal(intent) /\ ai_call.rag_animal = "available"
                 raised == \/ plant_called /\ po = "raise"
                           \/ animal_called /\ ao = "raise"
                 found == \/ plant_called /\ po = "hit"
                          \/ animal_called /\ ao = "hit"
                 blocks == {ai_call'.prompt[i] : i \in 1..Len(ai_call'.prompt)}
             IN  (raised \/ ~found)
                 => /\ NoKbBlock \in blocks
                    /\ KbBlock \notin blocks
                    /\ ai_call'.stage = "llm"]_vars

\* a retrieval call as the claims name it: the index and top_k
Call(index, top_k) == [index |-> index, top_k |-> top_k]

\* the calls made, as index and top_k
CallsMade == [k \in 1..Len(ai_call.queries) |->
                 Call(ai_call.queries[k].index, ai_call.queries[k].top_k)]

\* the services that can be queried
Queryable(index) ==
    IF index = "plant" THEN ai_call.rag_plant = "available"
    ELSE ai_call.rag_animal = "available"

\* the calls `wanted` are made in order, each on a service that can be queried;
\* a call that raises ends the retrieval step
MadeAsWanted(wanted) ==
    LET possible == SelectSeq(wanted, LAMBDA c : Queryable(c.index))
        made == CallsMade
    IN  IF \E k \in 1..Len(ai_call.queries) : ai_call.queries[k].outcome = "raise"
        THEN /\ Len(made) <= Len(possible)
             /\ made = SubSeq(possible, 1, Len(made))
             /\ ai_call.queries[Len(made)].outcome = "raise"
        ELSE made = possible

\* the calls the routing rule asks for
RoutedCalls(intent) ==
    IF intent.is_both \/ intent.is_ambiguous
    THEN <<Call("plant", 2), Call("animal", 2)>>
    ELSE IF intent.is_animal THEN <<Call("animal", 3)>>
    ELSE <<Call("plant", 3)>>

\* C24: for each classifier output generate_response queries the plant index
\* and then the animal index, both with top_k 2, when is_both or is_ambiguous is
\* set; else only the animal index with top_k 3 when is_animal is the only domain
\* flag; else only the plant index with top_k 3 when is_plant is the only domain
\* flag; the found bundles are joined plant first and no index is queried twice
\* for one message. (An index is queried when its service is available, and a
\* retrieval call that raises ends the retrieval.)
C24_IntentRouting ==
    (ai_call.op = "generate_response" /\ ai_call.stage = "llm") =>
        LET intent == ai_call.intent
            queries == ai_call.queries
        IN  /\ (intent.is_both \/ intent.is_ambiguous \/ intent.is_animal # intent.is_plant)
                  => MadeAsWanted(RoutedCalls(intent))
            /\ \A k \in 1..Len(queries) : queries[k].query = ai_call.user_message
            /\ \A j, k \in 1..Len(queries) : j # k => queries[j].index # queries[k].index
            /\ ai_call.rag_context \in {<<>>, <<"plant">>, <<"animal">>, <<"plant", "animal">>}
            /\ \A k \in 1..Len(queries) :
                  (ai_call.rag_context # <<>> /\ queries[k].outcome = "hit")
                  => \E i \in 1..Len(ai_call.rag_context) :
                        ai_call.rag_context[i] = queries[k].index

\* a message classified as both domains was answered from both indices, and one
\* classified as animal only from the animal index
C24_Witness ==
    /\ ai_call.op = "generate_response" /\ ai_call.stage = "llm"
    /\ ai_call.intent.is_both
    /\ ai_call.queries = <<Query("plant", ai_call.user_message, 2, "hit"),
                           Query("animal", ai_call.user_message, 2, "hit")>>
    /\ ai_call.rag_context = <<"plant", "animal">>

\* the parts of the prompt
PromptParts == {ai_call.prompt[i] : i \in 1..Len(ai_call.prompt)}

\* C28: in analyze_image with the model available the identification call comes
\* first; after a binomial name both available indices are queried with that
\* name and top_k 3 before the final call, the prompt holds the tag of the
\* identified species and, when something was retrieved, the knowledge-base
\* block, and the reply is the output of the one final call; after UNKNOWN or an
\* exception no index is queried, no tag is added and the final call is still
\* made.
C28_ImageTwoStep ==
    ai_call.op = "analyze_image" =>
        /\ ai_call.stage = "identify" => (ai_call.llm_calls = 0 /\ ai_call.queries = <<>>)
        /\ ai_call.stage = "vision" => ai_call.llm_calls = 1
        /\ (ai_call.stage \in {"vision", "done"} /\ ai_call.llm_calls > 0) =>
              /\ ai_call.species = "Genus species" =>
                    /\ MadeAsWanted(<<Call("plant", 3), Call("animal", 3)>>)
                    /\ \A k \in 1..Len(ai_call.queries) :
                          ai_call.queries[k].query = <<ai_call.species>>
                    /\ IdentifiedSpecies(ai_call.species) \in PromptParts
                    /\ ai_call.rag_context # <<>> => KbBlock \in PromptParts
              /\ ai_call.species = "UNKNOWN" =>
                    /\ ai_call.queries = <<>>
                    /\ \A part \in PromptParts : part.part # "identified_species"
        /\ (ai_call.stage = "done" /\ ai_call.llm_calls > 0) =>
              /\ ai_call.llm_calls = 2
              /\ ai_call.result \in {VisionReply, VisionErrorReply}

\* an image identified by a binomial name was answered by the final call after
\* both indices gave a context for that name
C28_Witness ==
    /\ ai_call.op = "analyze_image" /\ ai_call.stage = "done"
    /\ ai_call.species = "Genus species"
    /\ ai_call.queries = <<Query("plant", <<"Genus species">>, 3, "hit"),
                           Query("animal", <<"Genus species">>, 3, "hit")>>
    /\ ai_call.result = VisionReply

(***************************************************************************)
(* One ingestion run: plants from the JSON file into the index             *)
(***************************************************************************)
\* the runs of one plant: every name with a content of two chunks, two names
\* with every content
OnePlantRuns ==
    {<<Plant(n, Content("words", <<600, 600>>), FALSE)>> : n \in Names}
    \cup {<<Plant(n, c, FALSE)>> : n \in {<<>>, <<"e_acute", " ", "a">>}, c \in Contents}

\* the runs of two plants: names that are equal, that differ only in a diacritic,
\* and that differ, with and without the `error` mark
TwoPlantNames == {<<"e">>, <<"e_acute">>, <<"a">>, <<>>}

TwoPlantRuns ==
    {<<Plant(n1, Content("words", <<1>>), e1), Plant(n2, c2, e2)>> :
        n1 \in TwoPlantNames, n2 \in TwoPlantNames, e1 \in BOOLEAN, e2 \in BOOLEAN,
        c2 \in {Content("empty", <<>>), Content("words", <<600, 600>>)}}

\* batch_size: every vector a batch, batches of two, the default
BatchSizes == {1, 2, 100}

InitIngest ==
    /\ backend = "memory"
    /\ conversations = <<>>
    /\ messages_store = <<>>
    /\ active_connections = [u \in Users |-> 0]
    /\ sessions = <<>>
    /\ sent = <<>>
    /\ model_available = TRUE
    /\ http_response = ErrResponse("none", 0)
    /\ now = 0
    /\ ai_call = NoAiCall
    /\ retrieval = NoRetrieval
    /\ \E plants \in OnePlantRuns \cup TwoPlantRuns, bs \in BatchSizes,
          available \in BOOLEAN :
          /\ Len(plants) = 1 => bs # 2
          /\ ingestion = [NoIngestion EXCEPT !.plants = plants, !.batch_size = bs,
                                          !.available = available]

NextIngest ==
    \/ StartLoad
    \/ \E failed \in SUBSET (1..(MaxWords + 1)) : IndexPlant(failed)
    \/ LoadRaises
    \/ FinishLoad

SpecIngest == InitIngest /\ [][NextIngest]_vars

\* the plant the loop has just handled
LastPlant == ingestion.plants[ingestion.plant_idx]

Alnum == LowerAscii \cup Digits

\* ^[a-z0-9_]+$
MatchesIdPattern(id) == id # <<>> /\ \A k \in 1..Len(id) : id[k] \in Alnum \cup {"_"}

\* the characters of a name that leave a letter or a digit in the id
LeavesAlnum == Alnum \cup {"A", "e_acute", "sharp_s", "o_macron"}

\* C19: for every record without `error` the chunker returns at least one chunk,
\* the first with id {base}_basic, the content chunks with ids {base}_content_0,
\* {base}_content_1, ... in chunk order and chunk_index equal to that number;
\* the ids of one record are pairwise distinct and match ^[a-z0-9_]+$; base, the
\* sanitized scientific name, is non-empty, has no leading, trailing or doubled
\* underscore, and is "unknown" when nothing of the name survives.
C19_ChunkIds ==
    (ingestion.plant_idx >= 1 /\ ~LastPlant.error) =>
        LET chunks == ingestion.chunks
            name == LastPlant.scientific_name
            base == sanitize_plant_id(name)
        IN  /\ Len(chunks) >= 1
            /\ chunks[1].id = base \o BasicSuffix
            /\ \A k \in 2..Len(chunks) :
                  /\ chunks[k].id = base \o ContentSuffix \o Decimal(k - 2)
                  /\ chunks[k].chunk_index = k - 2
            /\ \A j, k \in 1..Len(chunks) : j # k => chunks[j].id # chunks[k].id
            /\ \A k \in 1..Len(chunks) : MatchesIdPattern(chunks[k].id)
            /\ base # <<>>
            /\ base[1] # "_" /\ base[Len(base)] # "_"
            /\ \A k \in 1..(Len(base) - 1) : ~(base[k] = "_" /\ base[k + 1] = "_")
            /\ (\A k \in 1..Len(name) : name[k] \notin LeavesAlnum) => base = Unknown

\* a record with a non-ASCII name and a content of two chunks was chunked
C19_Witness ==
    /\ ingestion.plant_idx = 1
    /\ LastPlant.scientific_name = <<"e_acute", " ", "a">>
    /\ Len(ingestion.chunks) = 3
    /\ ingestion.chunks[3].id = <<"e", "_", "a">> \o ContentSuffix \o <<"1">>

\* C20: when two records of a finished ingestion run have different scientific
\* names with the same sanitized base id, the run reports the collision.
C20_CollisionReported ==
    (ingestion.stage = "done" /\ ingestion.result = "True") =>
        \A i, j \in 1..Len(ingestion.plants) :
            LET p == ingestion.plants[i]
                q == ingestion.plants[j]
            IN  ( /\ i < j /\ ~p.error /\ ~q.error
                  /\ p.scientific_name # q.scientific_name
                  /\ sanitize_plant_id(p.scientific_name)
                        = sanitize_plant_id(q.scientific_name) )
                => \E k \in 1..Len(ingestion.log) : ingestion.log[k].event = "collision"

\* the run has returned True
ReturnedTrue == ingestion.stage = "done" /\ ingestion.result = "True"

\* the chunks from position k on whose embedding succeeded
RECURSIVE Embedded(_, _, _)
Embedded(chunks, k, failed) ==
    IF k > Len(chunks) THEN <<>>
    ELSE (IF k \in failed THEN <<>> ELSE <<chunks[k]>>) \o Embedded(chunks, k + 1, failed)

\* the embedded chunks of the plants from position i on, plants with `error` left out
RECURSIVE EmbeddedFrom(_)
EmbeddedFrom(i) ==
    IF i > Len(ingestion.plants) THEN <<>>
    ELSE (IF ingestion.plants[i].error THEN <<>>
          ELSE Embedded(chunk_plant_data(ingestion.plants[i]), 1, ingestion.failed[i]))
         \o EmbeddedFrom(i + 1)

\* C21: a run that returns True has upserted exactly the chunks of the records
\* without `error` whose embedding succeeded, each once and in chunk order;
\* records with `error` give no vector and a failed chunk does not keep later
\* chunks from being upserted.
C21_UpsertsExactlyEmbedded ==
    ReturnedTrue => Flatten(ingestion.upserts) = EmbeddedFrom(1)

\* a run of a record with `error` and a record whose second of three chunks
\* failed has returned True
C21_Witness ==
    /\ ReturnedTrue
    /\ Len(ingestion.plants) = 2
    /\ ingestion.plants[1].error /\ ~ingestion.plants[2].error
    /\ ingestion.failed[2] = {2}
    /\ Len(chunk_plant_data(ingestion.plants[2])) = 3
    /\ Len(Flatten(ingestion.upserts)) = 2

\* the content chunks of the plant handled last: their texts
ContentTexts == [k \in 1..(Len(ingestion.chunks) - 1) |-> ingestion.chunks[k + 1].text]

RECURSIVE SumOf(_)
SumOf(q) == IF q = <<>> THEN 0 ELSE Head(q) + SumOf(Tail(q))

\* len(content) of a content whose words are separated by one space
ContentLength(content) ==
    IF content.kind = "empty" THEN 0
    ELSE IF content.kind = "blank" THEN 1
    ELSE SumOf(content.words) + Len(content.words) - 1

CeilDiv(a, b) == (a + b - 1) \div b

\* C25 as stated: for content of L characters the chunker emits exactly
\* ceil(L / 1000) content chunks whose words, joined in chunk order, are the
\* words of the content.
C25_ChunkCount ==
    (ingestion.plant_idx >= 1 /\ ~LastPlant.error) =>
        /\ Len(ContentTexts) = CeilDiv(ContentLength(LastPlant.content), max_chunk_size)
        /\ Flatten(ContentTexts) = LastPlant.content.words

\* C25 amended: the content chunks are filled greedily with whole words: their
\* words, joined in chunk order, are the words of the content, none lost or
\* duplicated; a content with words gives no empty chunk; a chunk of more than
\* one word is at most 1000 characters long; a chunk is closed only when the
\* next word, counted with one space after each word, would pass 1000.
C25_WholeWordChunks ==
    (ingestion.plant_idx >= 1 /\ ~LastPlant.error) =>
        LET content == LastPlant.content
            texts == ContentTexts
        IN  /\ Flatten(texts) = content.words
            /\ content.kind = "empty" <=> texts = <<>>
            /\ content.kind = "blank" => texts = <<(<<>>)>>
            /\ content.kind = "words" =>
                  /\ \A k \in 1..Len(texts) : texts[k] # <<>>
                  /\ \A k \in 1..Len(texts) :
                        Len(texts[k]) > 1 =>
                            SumOf(texts[k]) + Len(texts[k]) - 1 <= max_chunk_size
                  /\ \A k \in 1..(Len(texts) - 1) :
                        SumOf(texts[k]) + Len(texts[k]) + Head(texts[k + 1]) + 1
                            > max_chunk_size

\* a content of three words of 600 characters (1802 characters) was chunked
\* into three content chunks
C25_Witness ==
    /\ ingestion.plant_idx = 1
    /\ LastPlant.content.words = <<600, 600, 600>>
    /\ Len(ContentTexts) = 3

\* C26: with batch size b the pending buffer never holds more than b vectors,
\* every upsert call but the last carries exactly b vectors, the final flush
\* carries between 1 and b vectors and is made only when vectors are pending,
\* the buffer is empty when the run returns True, and the sizes of all upsert
\* calls add up to the number of embedded chunks.
C26_Batching ==
    LET b == ingestion.batch_size
        calls == ingestion.upserts
    IN  /\ Len(ingestion.vectors_to_upsert) <= b
        /\ \A k \in 1..Len(calls) :
              /\ Len(calls[k]) >= 1 /\ Len(calls[k]) <= b
              /\ (k < Len(calls) \/ ingestion.stage = "running") => Len(calls[k]) = b
        /\ ReturnedTrue =>
              /\ ingestion.vectors_to_upsert = <<>>
              /\ SumOf([k \in 1..Len(calls) |-> Len(calls[k])]) = Len(EmbeddedFrom(1))
              /\ ingestion.total_indexed = Len(EmbeddedFrom(1))

\* a run with batches of two has made two full upserts and a final flush of one
C26_Witness ==
    /\ ReturnedTrue
    /\ ingestion.batch_size = 2
    /\ Len(ingestion.upserts) = 3
    /\ Len(ingestion.upserts[3]) = 1

(***************************************************************************)
(* Retrieval: calls of get_rag_context over the replies of the index       *)
(***************************************************************************)
InitRetrieve ==
    /\ backend = "memory"
    /\ conversations = <<>>
    /\ messages_store = <<>>
    /\ active_connections = [u \in Users |-> 0]
    /\ sessions = <<>>
    /\ sent = <<>>
    /\ model_available = TRUE
    /\ http_response = ErrResponse("none", 0)
    /\ now = 0
    /\ ai_call = NoAiCall
    /\ ingestion = NoIngestion
    /\ retrieval = NoRetrieval

NextRetrieve ==
    \/ \E outcome \in SearchOutcomes, matches \in IndexReplies(MaxMatches) :
          GetRagContext(outcome, matches)
    \/ \E top_k \in TopKs : NextQuery(top_k)

SpecRetrieve == InitRetrieve /\ [][NextRetrieve]_vars

\* the names of the matches, and the best score of a name
MatchedNames ==
    {retrieval.matches[i].scientific_name : i \in 1..Len(retrieval.matches)} \ {""}

BestScore(name) ==
    CHOOSE x \in Scores :
        /\ \E i \in 1..Len(retrieval.matches) :
              retrieval.matches[i] = Match(name, x)
        /\ \A i \in 1..Len(retrieval.matches) :
              retrieval.matches[i].scientific_name = name => retrieval.matches[i].score <= x

NameRank(name) == CHOOSE i \in 1..Len(SpeciesNames) : SpeciesNames[i] = name

\* group x comes before group y: better best score, or the same and the name first
RanksBefore(x, y) ==
    \/ BestScore(x) > BestScore(y)
    \/ BestScore(x) = BestScore(y) /\ NameRank(x) < NameRank(y)

\* C27: for any matches returned for top_k = k the bundle holds the first k
\* groups of the matches grouped by scientific_name and ranked by best score
\* descending, equal best scores by scientific_name ascending: at most k
\* species, none twice, matches without a scientific_name left out.
C27_RankedGroups ==
    (retrieval.stage = "done" /\ retrieval.outcome = "ok") =>
        LET bundle == retrieval.bundle
            k == retrieval.top_k
            in_bundle == Range(bundle)
        IN  /\ Len(bundle) <= k
            /\ Len(bundle) = IF Cardinality(MatchedNames) < k
                             THEN Cardinality(MatchedNames) ELSE k
            /\ in_bundle \subseteq MatchedNames
            /\ \A i, j \in 1..Len(bundle) : i < j => RanksBefore(bundle[i], bundle[j])
            /\ \A x \in in_bundle, y \in MatchedNames \ in_bundle : RanksBefore(x, y)

====
